---- MODULE Spec2Model ----
(***************************************************************************)
(* Verification model of the minimax-docx schema-conformance engine:       *)
(* the layered order registry (spec/ooxml_order.py), the tree sorter       *)
(* (spec/tree_fixer.py), the document fixer (spec/document_repair.py),     *)
(* the validation detectors and pipeline (check/) and the OPC packager     *)
(* (packaging/opc.py).                                                     *)
(*                                                                         *)
(* Each subsystem has its own specification (Init/Next pair) over the      *)
(* variables it uses; the variables of the other subsystems stay at their  *)
(* idle values.                                                            *)
(***************************************************************************)
EXTENDS Integers, Sequences, FiniteSets, TLC

VARIABLES
    op,         \* name of the last operation that ran ("init" before any)
    container,  \* order registry: container name passed to build_sequence
    profile,    \* order registry / fixer: profile name
    sequence,   \* order registry: last build_sequence result
    tag,        \* element tree: node id -> local tag name
    kids,       \* element tree: node id -> sequence of child node ids
    target,     \* sorter: the spec_order argument of sort_by_spec
    pre,        \* element tree as it was when the last operation started
    ret,        \* return value of the last operation
    runs,       \* how many times in a row the last operation has run
    events,     \* DocumentFixer._events
    orig,       \* element tree handed to the first fixer call
    attrs,      \* element tree: node id -> attributes (w, type, val)
    cur,        \* table under construction while the input tree is built
    mainPart,   \* unpacked package: word/document.xml ("ok", "missing", "malformed")
    refs,       \* main part: the w:id of each commentRangeStart, in document order
    comments,   \* unpacked package: word/comments.xml, [state, ids]
    issues,     \* ValidationReport.issues
    raised,     \* the exception the last operation let out ("" if none)
    detectors,  \* ValidationPipeline._detectors
    disabled,   \* ValidationPipeline._disabled
    docx,       \* the file at docx_path ("missing", "badzip", "ok")
    scanned,    \* the detectors whose scan was called by the last run, in order
    arg,        \* pipeline: the name passed to the last skip or enable
    tmpdir,     \* the temporary directory of the last run ("" if none was made)
    context,    \* the ScanContext of the run in progress, with its lazy caches
    files,      \* extracted package: the relative paths of its files
    entries,    \* [Content_Types].xml: [ok, children]
    archive     \* the members of the archive written, in order

orderVars == <<container, sequence>>
treeVars == <<tag, kids, target, pre, ret, runs, events, orig>>
gridVars == <<attrs, cur>>
checkVars == <<mainPart, refs, comments, issues, raised, detectors, disabled, docx, scanned,
               arg, tmpdir, context>>
packVars == <<files, entries, archive>>

vars == <<op, container, profile, sequence, tag, kids, target, pre, ret, runs,
          events, orig, attrs, cur,
          checkVars, packVars>>

(***************************************************************************)
(* Generic sequence helpers.                                               *)
(***************************************************************************)
Range(s) == {s[i] : i \in 1..Len(s)}

RECURSIVE Concat(_)
Concat(ss) == IF ss = <<>> THEN <<>> ELSE Head(ss) \o Concat(Tail(ss))

\* Position of the first occurrence of x in s (0 when absent).
FirstIndex(s, x) ==
    LET at == {i \in 1..Len(s) : s[i] = x}
    IN IF at = {} THEN 0 ELSE CHOOSE i \in at : \A j \in at : i <= j

\* Position of the last occurrence of x in s (0 when absent).
LastIndex(s, x) ==
    LET at == {i \in 1..Len(s) : s[i] = x}
    IN IF at = {} THEN 0 ELSE CHOOSE i \in at : \A j \in at : j <= i

NoDuplicates(s) == \A i, j \in 1..Len(s) : s[i] = s[j] => i = j

(***************************************************************************)
(* Layered order registry: spec/ooxml_order.py                             *)
(***************************************************************************)
DEFAULT_PROFILE == "repair"

PROFILE_LEVELS ==
    [ minimal |-> {"must"},
      repair  |-> {"must", "should"},
      compat  |-> {"must", "should", "may"},
      strict  |-> {"must", "should", "may", "vendor"} ]

Profiles == DOMAIN PROFILE_LEVELS

levels_for_profile(p) ==
    IF p \in DOMAIN PROFILE_LEVELS THEN PROFILE_LEVELS[p]
    ELSE PROFILE_LEVELS[DEFAULT_PROFILE]

ORDER_BOOK ==
  [ rPr |-> <<
        [name |-> "must-core", level |-> "must",
         elements |-> <<"rStyle", "rFonts", "b", "i", "color", "sz", "szCs", "u", "rtl">>],
        [name |-> "should-emphasis", level |-> "should",
         elements |-> <<"bCs", "iCs", "caps", "smallCaps", "strike", "dstrike", "highlight", "vertAlign", "lang", "oMath">>],
        [name |-> "may-typography", level |-> "may",
         elements |-> <<"spacing", "w", "kern", "position", "fitText", "eastAsianLayout">>],
        [name |-> "vendor-tail", level |-> "vendor",
         elements |-> <<"specVanish">>]>>,
    pPr |-> <<
        [name |-> "must-layout", level |-> "must",
         elements |-> <<"pStyle", "numPr", "pBdr", "tabs", "spacing", "ind", "jc", "rPr", "sectPr">>],
        [name |-> "should-flow-control", level |-> "should",
         elements |-> <<"keepNext", "keepLines", "pageBreakBefore", "widowControl", "textDirection", "textAlignment", "outlineLvl", "pPrChange">>],
        [name |-> "may-asian-layout", level |-> "may",
         elements |-> <<"kinsoku", "wordWrap", "autoSpaceDE", "autoSpaceDN", "snapToGrid">>],
        [name |-> "vendor-formatting", level |-> "vendor",
         elements |-> <<"divId", "cnfStyle">>]>>,
    sectPr |-> <<
        [name |-> "must-page-model", level |-> "must",
         elements |-> <<"type", "pgSz", "pgMar", "cols", "docGrid">>],
        [name |-> "should-section-flags", level |-> "should",
         elements |-> <<"headerReference", "footerReference", "footnotePr", "endnotePr", "titlePg", "textDirection", "bidi", "rtlGutter">>],
        [name |-> "may-page-extensions", level |-> "may",
         elements |-> <<"paperSrc", "pgBorders", "lnNumType", "pgNumType", "printerSettings">>],
        [name |-> "vendor-tail", level |-> "vendor",
         elements |-> <<"sectPrChange">>]>>,
    tcPr |-> <<
        [name |-> "must-cell", level |-> "must",
         elements |-> <<"tcW", "gridSpan", "hMerge", "vMerge", "tcBorders", "tcMar", "vAlign">>],
        [name |-> "should-cell-layout", level |-> "should",
         elements |-> <<"cnfStyle", "shd", "noWrap", "textDirection", "tcFitText", "hideMark">>],
        [name |-> "may-cell-revision", level |-> "may",
         elements |-> <<"headers", "cellIns", "cellDel", "cellMerge">>],
        [name |-> "vendor-tail", level |-> "vendor",
         elements |-> <<"tcPrChange">>]>>,
    tblPr |-> <<
        [name |-> "must-table", level |-> "must",
         elements |-> <<"tblStyle", "tblW", "jc", "tblBorders", "tblLayout", "tblCellMar", "tblLook">>],
        [name |-> "should-table-layout", level |-> "should",
         elements |-> <<"tblpPr", "tblCellSpacing", "tblInd", "shd", "tblStyleRowBandSize", "tblStyleColBandSize">>],
        [name |-> "may-table-meta", level |-> "may",
         elements |-> <<"tblOverlap", "bidiVisual", "tblCaption", "tblDescription">>],
        [name |-> "vendor-tail", level |-> "vendor",
         elements |-> <<"tblPrChange">>]>>,
    tblBorders |-> <<
        [name |-> "must-outer-and-inner", level |-> "must",
         elements |-> <<"top", "left", "bottom", "right", "insideH", "insideV">>],
        [name |-> "may-bidi-edges", level |-> "may",
         elements |-> <<"start", "end">>]>>,
    pBdr |-> <<
        [name |-> "must-border-loop", level |-> "must",
         elements |-> <<"top", "left", "bottom", "right", "between", "bar">>]>>,
    tcMar |-> <<
        [name |-> "must-box", level |-> "must",
         elements |-> <<"top", "left", "bottom", "right">>],
        [name |-> "should-bidi", level |-> "should",
         elements |-> <<"start", "end">>]>>,
    tblCellMar |-> <<
        [name |-> "must-box", level |-> "must",
         elements |-> <<"top", "left", "bottom", "right">>],
        [name |-> "should-bidi", level |-> "should",
         elements |-> <<"start", "end">>]>>,
    lvl |-> <<
        [name |-> "must-numbering", level |-> "must",
         elements |-> <<"start", "numFmt", "lvlText", "lvlJc", "pPr", "rPr">>],
        [name |-> "should-numbering-controls", level |-> "should",
         elements |-> <<"lvlRestart", "pStyle", "isLgl", "suff", "lvlPicBulletId">>],
        [name |-> "may-legacy", level |-> "may",
         elements |-> <<"legacy">>]>>,
    numbering |-> <<
        [name |-> "must-numbering-root", level |-> "must",
         elements |-> <<"abstractNum", "num">>],
        [name |-> "should-numbering-extensions", level |-> "should",
         elements |-> <<"numPicBullet">>],
        [name |-> "vendor-tail", level |-> "vendor",
         elements |-> <<"numIdMacAtCleanup">>]>>,
    tr |-> <<
        [name |-> "must-row-core", level |-> "must",
         elements |-> <<"tblPrEx", "trPr", "tc">>],
        [name |-> "should-row-content", level |-> "should",
         elements |-> <<"customXml", "sdt", "bookmarkStart", "bookmarkEnd">>],
        [name |-> "may-ranges", level |-> "may",
         elements |-> <<"commentRangeStart", "commentRangeEnd", "moveFromRangeStart", "moveFromRangeEnd", "moveToRangeStart", "moveToRangeEnd">>],
        [name |-> "vendor-ranges", level |-> "vendor",
         elements |-> <<"customXmlInsRangeStart", "customXmlInsRangeEnd", "customXmlDelRangeStart", "customXmlDelRangeEnd", "customXmlMoveFromRangeStart", "customXmlMoveFromRangeEnd", "customXmlMoveToRangeStart", "customXmlMoveToRangeEnd">>]>>,
    style |-> <<
        [name |-> "must-style-identity", level |-> "must",
         elements |-> <<"name", "basedOn", "next", "qFormat">>],
        [name |-> "should-style-switches", level |-> "should",
         elements |-> <<"aliases", "link", "uiPriority", "semiHidden", "unhideWhenUsed", "locked", "rsid">>],
        [name |-> "must-style-payload", level |-> "must",
         elements |-> <<"pPr", "rPr", "tblPr", "trPr", "tcPr", "tblStylePr">>],
        [name |-> "may-style-personalization", level |-> "may",
         elements |-> <<"autoRedefine", "hidden", "personal", "personalCompose", "personalReply">>]>>,
    tbl |-> <<
        [name |-> "must-table-core", level |-> "must",
         elements |-> <<"tblPr", "tblGrid", "tr">>],
        [name |-> "should-table-anchors", level |-> "should",
         elements |-> <<"bookmarkStart", "bookmarkEnd", "commentRangeStart", "commentRangeEnd">>],
        [name |-> "may-move-ranges", level |-> "may",
         elements |-> <<"moveFromRangeStart", "moveFromRangeEnd", "moveToRangeStart", "moveToRangeEnd">>],
        [name |-> "vendor-custom-ranges", level |-> "vendor",
         elements |-> <<"customXmlInsRangeStart", "customXmlInsRangeEnd", "customXmlDelRangeStart", "customXmlDelRangeEnd", "customXmlMoveFromRangeStart", "customXmlMoveFromRangeEnd", "customXmlMoveToRangeStart", "customXmlMoveToRangeEnd">>]>>,
    body |-> <<
        [name |-> "must-main-flow", level |-> "must",
         elements |-> <<"p", "tbl">>],
        [name |-> "should-embedded-blocks", level |-> "should",
         elements |-> <<"customXml", "sdt", "altChunk">>],
        [name |-> "may-ranges", level |-> "may",
         elements |-> <<"bookmarkStart", "bookmarkEnd", "commentRangeStart", "commentRangeEnd">>],
        [name |-> "vendor-move-ranges", level |-> "vendor",
         elements |-> <<"moveFromRangeStart", "moveFromRangeEnd", "moveToRangeStart", "moveToRangeEnd", "customXmlInsRangeStart", "customXmlInsRangeEnd", "customXmlDelRangeStart", "customXmlDelRangeEnd", "customXmlMoveFromRangeStart", "customXmlMoveFromRangeEnd", "customXmlMoveToRangeStart", "customXmlMoveToRangeEnd">>],
        [name |-> "must-tail", level |-> "must",
         elements |-> <<"sectPr">>]>>,
    settings |-> <<
        [name |-> "must-core", level |-> "must",
         elements |-> <<"writeProtection", "view", "zoom", "trackRevisions", "documentProtection", "defaultTabStop", "defaultTableStyle", "compat", "rsids", "mathPr", "themeFontLang", "clrSchemeMapping">>],
        [name |-> "should-proofing-and-layout", level |-> "should",
         elements |-> <<"hideSpellingErrors", "hideGrammaticalErrors", "proofState", "attachedTemplate", "linkStyles", "evenAndOddHeaders", "bookFoldPrinting", "bookFoldPrintingSheets", "drawingGridHorizontalSpacing", "drawingGridVerticalSpacing", "characterSpacingControl">>],
        [name |-> "may-xml-handling", level |-> "may",
         elements |-> <<"doNotValidateAgainstSchema", "saveInvalidXml", "ignoreMixedContent", "showXMLTags", "alwaysMergeEmptyNamespace", "updateFields">>],
        [name |-> "vendor-tail", level |-> "vendor",
         elements |-> <<"docId", "defaultImageDpi", "conflictMode", "decimalSymbol", "listSeparator">>]>> ]

Containers == DOMAIN ORDER_BOOK

\* _flatten_unique: walk the parts in order, keep an element the first time
\* it is seen.  `ordered` is the list built so far.
RECURSIVE flatten_from(_, _)
flatten_from(flat, ordered) ==
    IF flat = <<>> THEN ordered
    ELSE IF Head(flat) \in Range(ordered)
         THEN flatten_from(Tail(flat), ordered)
         ELSE flatten_from(Tail(flat), Append(ordered, Head(flat)))

flatten_unique(parts) == flatten_from(Concat(parts), <<>>)

\* The phases of a container whose level the profile includes, in table order.
RECURSIVE select_phases(_, _)
select_phases(phases, levels) ==
    IF phases = <<>> THEN <<>>
    ELSE IF Head(phases).level \in levels
         THEN <<Head(phases)>> \o select_phases(Tail(phases), levels)
         ELSE select_phases(Tail(phases), levels)

active_phases(c, p) == select_phases(ORDER_BOOK[c], levels_for_profile(p))

\* A plausible slip: phases grouped by rule level instead of table position.
build_sequence_by_level(c, p) ==
    LET ph == ORDER_BOOK[c]
        lv(l) == select_phases(ph, {l} \cap levels_for_profile(p))
        all == lv("must") \o lv("should") \o lv("may") \o lv("vendor")
    IN flatten_unique([i \in 1..Len(all) |-> all[i].elements])

\* ContainerOrder.build_sequence
build_sequence(c, p) ==
    LET ph == active_phases(c, p)
    IN flatten_unique([i \in 1..Len(ph) |-> ph[i].elements])

\* get_child_order: None (modelled as the empty sequence, which the callers
\* treat alike: `if order and ...`, `if not order or ...`) for an unknown
\* container.
get_child_order(c, p) ==
    IF c \in Containers THEN build_sequence(c, p) ELSE <<>>

(***************************************************************************)
(* Tree sorter: spec/tree_fixer.py                                         *)
(*                                                                         *)
(* A tree is a pair of functions over node ids 1..n: tg (local tag name;   *)
(* tag_name strips the namespace, so only the local names are kept) and    *)
(* ks (ordered child ids).  Node identity (`a is b`) is id equality.       *)
(***************************************************************************)
\* make_rank_index: name -> index; a repeated name keeps its last index.
make_rank_index(spec_order) ==
    [name \in Range(spec_order) |-> LastIndex(spec_order, name) - 1]

\* rank_map.get(local, unknown_rank) with rank_map = make_rank_index(spec_order)
\* and unknown_rank = len(spec_order).
rank_of(local, spec_order) ==
    LET idx == LastIndex(spec_order, local)
    IN IF idx = 0 THEN Len(spec_order) ELSE idx - 1

\* ordering_key of every child: (rank, orig_pos), with the child itself.
RECURSIVE ordering_keys(_, _, _, _)
ordering_keys(children, tg, spec_order, pos) ==
    IF children = <<>> THEN <<>>
    ELSE <<[elem |-> Head(children),
            rank |-> rank_of(tg[Head(children)], spec_order),
            pos |-> pos]>>
         \o ordering_keys(Tail(children), tg, spec_order, pos + 1)

\* Tuple comparison of two ordering keys.
key_less(a, b) == a.rank < b.rank \/ (a.rank = b.rank /\ a.pos < b.pos)

\* One keyed child put into an already sorted list.
RECURSIVE insert_sorted(_, _)
insert_sorted(done, item) ==
    IF done = <<>> THEN <<item>>
    ELSE IF key_less(item, Head(done)) THEN <<item>> \o done
         ELSE <<Head(done)>> \o insert_sorted(Tail(done), item)

RECURSIVE sort_keys(_, _)
sort_keys(items, done) ==
    IF items = <<>> THEN done
    ELSE sort_keys(Tail(items), insert_sorted(done, Head(items)))

RECURSIVE elems_of(_)
elems_of(items) ==
    IF items = <<>> THEN <<>> ELSE <<Head(items).elem>> \o elems_of(Tail(items))

\* sorted(children, key=ordering_key)
sorted_children(children, tg, spec_order) ==
    elems_of(sort_keys(ordering_keys(children, tg, spec_order, 0), <<>>))

\* A plausible slip: a key without the original position, under a sort that
\* does not keep ties in place.
RECURSIVE reverse_seq(_)
reverse_seq(s) == IF s = <<>> THEN <<>> ELSE Append(reverse_seq(Tail(s)), Head(s))

sort_by_spec_unstable(children, tg, spec_order) ==
    LET out == sorted_children(reverse_seq(children), tg, spec_order)
    IN IF Len(children) < 2 THEN [changed |-> FALSE, children |-> children]
       ELSE [changed |-> out # children, children |-> out]

\* A plausible slip: the change report ignores the comparison.
sort_by_spec_always_true(children, tg, spec_order) ==
    IF Len(children) < 2 THEN [changed |-> FALSE, children |-> children]
    ELSE [changed |-> TRUE,
          children |-> sorted_children(children, tg, spec_order)]

\* sort_by_spec(container, spec_order) on the child list of one container:
\* the bool it returns and the child list it leaves.
sort_by_spec(children, tg, spec_order) ==
    IF Len(children) < 2 THEN [changed |-> FALSE, children |-> children]
    ELSE LET out == sorted_children(children, tg, spec_order)
         IN IF \A i \in 1..Len(children) : children[i] = out[i]
            THEN [changed |-> FALSE, children |-> children]
            ELSE [changed |-> TRUE, children |-> out]

(***************************************************************************)
(* Document fixer: spec/document_repair.py                                 *)
(***************************************************************************)
BORDER_LEAVES == {"top", "left", "bottom", "right", "between", "bar"}

RECURSIVE SelectSeq2(_, _, _)
\* [x for x in s if keep[x]] with keep a set of node ids
SelectSeq2(s, keep, acc) ==
    IF s = <<>> THEN acc
    ELSE SelectSeq2(Tail(s), keep,
                    IF Head(s) \in keep THEN Append(acc, Head(s)) ELSE acc)

Filter(s, keep) == SelectSeq2(s, keep, <<>>)

\* A plausible slip: section nodes collected first.
ensure_sectpr_first(children, tg) ==
    LET sect == {n \in Range(children) : tg[n] = "sectPr"}
        reordered == Filter(children, sect) \o Filter(children, Range(children) \ sect)
    IN IF children = <<>> \/ sect = {} \/ reordered = children
       THEN [changed |-> FALSE, children |-> children]
       ELSE [changed |-> TRUE, children |-> reordered]

\* DocumentFixer.ensure_sectpr_last(body) on the child list of the body.
ensure_sectpr_last(children, tg) ==
    IF children = <<>> THEN [changed |-> FALSE, children |-> children]
    ELSE LET section_nodes == Filter(children, {n \in Range(children) : tg[n] = "sectPr"})
             content_nodes == Filter(children, {n \in Range(children) : tg[n] # "sectPr"})
             reordered == content_nodes \o section_nodes
         IN IF section_nodes = <<>> THEN [changed |-> FALSE, children |-> children]
            ELSE IF \A i \in 1..Len(children) : children[i] = reordered[i]
                 THEN [changed |-> FALSE, children |-> children]
                 ELSE [changed |-> TRUE, children |-> reordered]

\* DocumentFixer._record: one RepairEvent appended to the trace.
RepairEvent(action, cont, detail, touched) ==
    [action |-> action, container |-> cont, detail |-> detail, touched |-> touched]

\* Element.find(clark(name)): the first child with that tag, 0 for None.
\* Every element of the modelled trees is in the WordprocessingML namespace,
\* so the qualified-name match of find and the local-name match of tag_name
\* agree.
find_child(tg, ks, parent, name) ==
    LET c == ks[parent]
    IN IF \E i \in 1..Len(c) : tg[c[i]] = name
       THEN c[CHOOSE i \in 1..Len(c) :
                 tg[c[i]] = name /\ \A j \in 1..(i - 1) : tg[c[j]] # name]
       ELSE 0

InsertAt(s, idx0, x) ==    \* list.insert(idx0, x), idx0 counted from 0
    SubSeq(s, 1, idx0) \o <<x>> \o SubSeq(s, idx0 + 1, Len(s))

\* A plausible slip: the new group is always appended.
insert_at_schema_slot_append(children, tg, order, node, slot_name) ==
    Append(children, node)

\* DocumentFixer._insert_at_schema_slot: the parent's child list after the
\* insertion of `node`; `order` is the registered order of the parent.
insert_at_schema_slot(children, tg, order, node, slot_name) ==
    IF order = <<>> \/ slot_name \notin Range(order)
    THEN Append(children, node)
    ELSE LET rank == make_rank_index(order)
             slot_rank == rank[slot_name]
             nrank == Cardinality(DOMAIN rank)
             child_rank(i) ==    \* i counted from 1, idx = i - 1
                 IF tg[children[i]] \in DOMAIN rank THEN rank[tg[children[i]]]
                 ELSE nrank + (i - 1)
             hits == {i \in 1..Len(children) : child_rank(i) > slot_rank}
             insert_index ==
                 IF hits = {} THEN Len(children)
                 ELSE (CHOOSE i \in hits : \A j \in hits : i <= j) - 1
         IN InsertAt(children, insert_index, node)

\* A plausible slip: only the first loose leaf is moved.
wrap_border_group_first_only(st, ppr, prof) ==
    LET loose == Filter(st.kids[ppr],
                        {n \in Range(st.kids[ppr]) : st.tag[n] \in BORDER_LEAVES})
        found == find_child(st.tag, st.kids, ppr, "pBdr")
        fresh == found = 0
        pbdr == IF fresh THEN Len(st.tag) + 1 ELSE found
        tg1 == IF fresh THEN Append(st.tag, "pBdr") ELSE st.tag
        ks1 == IF fresh
               THEN [Append(st.kids, <<>>) EXCEPT ![ppr] =
                        insert_at_schema_slot(st.kids[ppr], tg1,
                            get_child_order(st.tag[ppr], prof), pbdr, "pBdr")]
               ELSE st.kids
        ks2 == [ks1 EXCEPT ![ppr] = Filter(ks1[ppr], Range(ks1[ppr]) \ {loose[1]}),
                           ![pbdr] = ks1[pbdr] \o <<loose[1]>>]
    IN IF loose = <<>> THEN [st |-> st, moved |-> 0]
       ELSE [st |-> [st EXCEPT !.tag = tg1, !.kids = ks2], moved |-> Len(loose)]

\* A plausible slip: the leaves appended to pBdr without ppr.remove(node).
wrap_border_group_copy(st, ppr, prof) ==
    LET loose == Filter(st.kids[ppr],
                        {n \in Range(st.kids[ppr]) : st.tag[n] \in BORDER_LEAVES})
        found == find_child(st.tag, st.kids, ppr, "pBdr")
        fresh == found = 0
        pbdr == IF fresh THEN Len(st.tag) + 1 ELSE found
        tg1 == IF fresh THEN Append(st.tag, "pBdr") ELSE st.tag
        ks1 == IF fresh
               THEN [Append(st.kids, <<>>) EXCEPT ![ppr] =
                        insert_at_schema_slot(st.kids[ppr], tg1,
                            get_child_order(st.tag[ppr], prof), pbdr, "pBdr")]
               ELSE st.kids
        ks2 == [ks1 EXCEPT ![pbdr] = ks1[pbdr] \o loose]
    IN IF loose = <<>> THEN [st |-> st, moved |-> 0]
       ELSE [st |-> [st EXCEPT !.tag = tg1, !.kids = ks2], moved |-> Len(loose)]

\* DocumentFixer.wrap_border_group(ppr): the tree it leaves and the number it
\* returns.  st is [tag, kids, events, changes].
wrap_border_group(st, ppr, prof) ==
    LET loose == Filter(st.kids[ppr],
                        {n \in Range(st.kids[ppr]) : st.tag[n] \in BORDER_LEAVES})
        found == find_child(st.tag, st.kids, ppr, "pBdr")
        fresh == found = 0
        pbdr == IF fresh THEN Len(st.tag) + 1 ELSE found
        tg1 == IF fresh THEN Append(st.tag, "pBdr") ELSE st.tag
        ks1 == IF fresh
               THEN [Append(st.kids, <<>>) EXCEPT ![ppr] =
                        insert_at_schema_slot(st.kids[ppr], tg1,
                            get_child_order(st.tag[ppr], prof), pbdr, "pBdr")]
               ELSE st.kids
        \* for node in loose: ppr.remove(node); pbdr.append(node)
        ks2 == [ks1 EXCEPT ![ppr] = Filter(ks1[ppr], Range(ks1[ppr]) \ Range(loose)),
                           ![pbdr] = ks1[pbdr] \o loose]
        border_order == get_child_order("pBdr", prof)
        ks3 == IF border_order # <<>>
               THEN [ks2 EXCEPT ![pbdr] = sort_by_spec(ks2[pbdr], tg1, border_order).children]
               ELSE ks2
    IN IF loose = <<>> THEN [st |-> st, moved |-> 0]
       ELSE [st |-> [st EXCEPT !.tag = tg1, !.kids = ks3], moved |-> Len(loose)]

\* fix_all, lines 59-63: the border-group pass on a pPr.
border_pass(st, node, prof) ==
    IF st.tag[node] # "pPr" THEN st
    ELSE LET w == wrap_border_group(st, node, prof)
         IN IF w.moved # 0
            THEN [w.st EXCEPT
                    !.events = Append(@, RepairEvent("wrap-border-group", "pPr",
                                            "moved loose border leaves into pBdr", w.moved)),
                    !.changes = @ + w.moved]
            ELSE w.st

\* fix_all, lines 65-68: the reorder-children pass.
reorder_pass(st, node, prof) ==
    LET local == st.tag[node]
        order == get_child_order(local, prof)
        srt == sort_by_spec(st.kids[node], st.tag, order)
    IN IF order # <<>> /\ srt.changed
       THEN [st EXCEPT
               !.kids[node] = srt.children,
               !.events = Append(@, RepairEvent("reorder-children", local,
                                         "reordered children to schema sequence", 1)),
               !.changes = @ + 1]
       ELSE st

\* fix_all, lines 70-72: the body-tail pass.
tail_pass(st, node) ==
    LET local == st.tag[node]
        r == ensure_sectpr_last(st.kids[node], st.tag)
    IN IF local = "body" /\ r.changed
       THEN [st EXCEPT
               !.kids[node] = r.children,
               !.events = Append(@, RepairEvent("body-tail-normalize", local,
                                         "moved sectPr to trailing position", 1)),
               !.changes = @ + 1]
       ELSE st

\* The body of fix_all's loop for one node: the three passes in turn, each on
\* the state the one before left.
fix_node(st, node, prof) ==
    CHOOSE s3 \in {tail_pass(s2, node) :
                     s2 \in {reorder_pass(s1, node, prof) :
                               s1 \in {border_pass(st, node, prof)}}} : TRUE

\* root.iter(): document order, the children of a node read when the walk
\* leaves the node, so after the node's own repairs.
RECURSIVE walk(_, _, _)
walk(st, stack, prof) ==
    IF stack = <<>> THEN st
    ELSE CHOOSE out \in
            {walk(s1, s1.kids[Head(stack)] \o Tail(stack), prof) :
               s1 \in {fix_node(st, Head(stack), prof)}} : TRUE

\* A plausible slip: the trace left as it is.
keep_events(evs) == evs

\* DocumentFixer.clear_events(): the list a fixer holding evs is left with.
clear_events(evs) == <<>>

\* DocumentFixer.fix_all(root) on a fixer whose trace is evs: clear_events(),
\* then the walk.
fix_all(tg, ks, evs, root, prof) ==
    walk([tag |-> tg, kids |-> ks, events |-> clear_events(evs), changes |-> 0],
         <<root>>, prof)

(***************************************************************************)
(* Grid alignment: DocumentFixer.align_grid, spec/document_repair.py       *)
(*                                                                         *)
(* An attribute value is a record: NONE (attribute absent), INT(n) (the    *)
(* string str(n), which int() parses to n), TEXT (a string of letters) or  *)
(* EMPTY (the empty string); int() rejects the last two.  The type         *)
(* attribute of tcW is a string, UNSET when absent.                        *)
(***************************************************************************)
NONE == [k |-> "none", v |-> 0]
TEXT == [k |-> "text", v |-> 0]
EMPTY == [k |-> "empty", v |-> 0]
INT(n) == [k |-> "int", v |-> n]
UNSET == "<unset>"
NoAttrs == [w |-> NONE, type |-> UNSET, val |-> NONE]

\* DocumentFixer._safe_int: None (ok = FALSE) or the parsed integer.
safe_int(raw) == [ok |-> raw.k = "int", v |-> raw.v]

\* DocumentFixer._node_int(node, attr, fallback) for the val attribute;
\* node = 0 is None.
node_int(at, node, fallback) ==
    IF node = 0 THEN fallback
    ELSE LET parsed == safe_int(at[node].val)
         IN IF ~parsed.ok \/ parsed.v <= 0 THEN fallback ELSE parsed.v

\* Element.findall(clark(name)): the direct children with that tag, in order.
findall(tg, ks, parent, name) ==
    Filter(ks[parent], {c \in Range(ks[parent]) : tg[c] = name})

\* DocumentFixer._build_parent_map, read at one child: its parent, 0 if none.
parent_of(ks, n) ==
    IF \E q \in 1..Len(ks) : n \in Range(ks[q])
    THEN CHOOSE q \in 1..Len(ks) : n \in Range(ks[q])
    ELSE 0

\* The while loop of _iter_non_nested_tables: is some ancestor a tbl?
RECURSIVE has_tbl_ancestor(_, _, _)
has_tbl_ancestor(tg, ks, n) ==
    LET q == parent_of(ks, n)
    IN IF q = 0 THEN FALSE
       ELSE IF tg[q] = "tbl" THEN TRUE
       ELSE has_tbl_ancestor(tg, ks, q)

\* root.iter(): the nodes in document order.
RECURSIVE preorder(_, _)
preorder(ks, stack) ==
    IF stack = <<>> THEN <<>>
    ELSE <<Head(stack)>> \o preorder(ks, ks[Head(stack)] \o Tail(stack))

\* A plausible slip: the ancestor check left out.
iter_all_tables(tg, ks, root) ==
    LET order == preorder(ks, <<root>>)
    IN Filter(order, {n \in Range(order) : tg[n] = "tbl"})

\* DocumentFixer._iter_non_nested_tables
iter_non_nested_tables(tg, ks, root) ==
    LET order == preorder(ks, <<root>>)
    IN Filter(order, {n \in Range(order) :
                        tg[n] = "tbl" /\ ~has_tbl_ancestor(tg, ks, n)})

\* DocumentFixer._grid_widths: [ok, widths]; ok = FALSE is None (no grid, a
\* column whose width does not parse, or no column at all).
RECURSIVE parse_widths(_, _, _)
parse_widths(at, cols, acc) ==
    IF cols = <<>> THEN [ok |-> acc # <<>>, widths |-> acc]
    ELSE LET value == safe_int(at[Head(cols)].w)
         IN IF ~value.ok THEN [ok |-> FALSE, widths |-> <<>>]
            ELSE parse_widths(at, Tail(cols), Append(acc, value.v))

grid_widths(tg, ks, at, grid) ==
    IF grid = 0 THEN [ok |-> FALSE, widths |-> <<>>]
    ELSE parse_widths(at, findall(tg, ks, grid, "gridCol"), <<>>)

\* sum(widths[cursor:end]) with Python's slice clipping.
RECURSIVE SumSeq(_)
SumSeq(s) == IF s = <<>> THEN 0 ELSE Head(s) + SumSeq(Tail(s))
slice_sum(widths, cursor, end) ==
    SumSeq(SubSeq(widths, cursor + 1, IF end < Len(widths) THEN end ELSE Len(widths)))

Abs(x) == IF x < 0 THEN -x ELSE x

\* A plausible slip: a non-strict comparison.
drift_reaches(actual, expected) == 25 * Abs(actual - expected) >= expected

\* drift > 0.04 with drift = abs(actual - expected) / expected, expected > 0.
\* The quotient of two integers is correctly rounded and 0.04 is the double
\* nearest to 1/25, so for widths below 10^15 the comparison of doubles
\* agrees with the exact one, 25 * |actual - expected| > expected.
drift_exceeds(actual, expected) == 25 * Abs(actual - expected) > expected

\* A plausible slip: the width of the first spanned column written.
cell_step_first_column(acc, tg, ks, cell, widths) ==
    LET tc_pr == find_child(tg, ks, cell, "tcPr")
        span == node_int(acc.attrs, find_child(tg, ks, tc_pr, "gridSpan"), 1)
        end == acc.cursor + span
        tc_w == find_child(tg, ks, tc_pr, "tcW")
        unit == acc.attrs[tc_w].type
        actual == safe_int(acc.attrs[tc_w].w)
        expected == slice_sum(widths, acc.cursor, end)
    IN IF tc_pr = 0 THEN [acc EXCEPT !.cursor = @ + 1]
       ELSE IF tc_w = 0 \/ end > Len(widths) THEN [acc EXCEPT !.cursor = end]
       ELSE IF unit \notin {UNSET, "", "dxa"} THEN [acc EXCEPT !.cursor = end]
       ELSE IF ~actual.ok \/ expected <= 0 THEN [acc EXCEPT !.cursor = end]
       ELSE IF expected = 0 THEN [acc EXCEPT !.raised = "ZeroDivisionError"]
       ELSE IF drift_exceeds(actual.v, expected)
            THEN [acc EXCEPT
                    !.attrs[tc_w].w = INT(widths[acc.cursor + 1]),
                    !.events = Append(@, RepairEvent("align-grid", "tcW",
                                                     <<actual.v, expected>>, 1)),
                    !.touched = @ + 1,
                    !.cursor = end]
            ELSE [acc EXCEPT !.cursor = end]

\* A plausible slip: only a negative expected width skipped.
cell_step_zero_expected(acc, tg, ks, cell, widths) ==
    LET tc_pr == find_child(tg, ks, cell, "tcPr")
        span == node_int(acc.attrs, find_child(tg, ks, tc_pr, "gridSpan"), 1)
        end == acc.cursor + span
        tc_w == find_child(tg, ks, tc_pr, "tcW")
        unit == acc.attrs[tc_w].type
        actual == safe_int(acc.attrs[tc_w].w)
        expected == slice_sum(widths, acc.cursor, end)
    IN IF tc_pr = 0 THEN [acc EXCEPT !.cursor = @ + 1]
       ELSE IF tc_w = 0 \/ end > Len(widths) THEN [acc EXCEPT !.cursor = end]
       ELSE IF unit \notin {UNSET, "", "dxa"} THEN [acc EXCEPT !.cursor = end]
       ELSE IF ~actual.ok \/ expected < 0 THEN [acc EXCEPT !.cursor = end]
       ELSE IF expected = 0 THEN [acc EXCEPT !.raised = "ZeroDivisionError"]
       ELSE IF drift_exceeds(actual.v, expected)
            THEN [acc EXCEPT
                    !.attrs[tc_w].w = INT(expected),
                    !.events = Append(@, RepairEvent("align-grid", "tcW",
                                                     <<actual.v, expected>>, 1)),
                    !.touched = @ + 1,
                    !.cursor = end]
            ELSE [acc EXCEPT !.cursor = end]

\* A plausible slip: the cursor left where it is at a cell without tcPr.
cell_step_no_advance(acc, tg, ks, cell, widths) ==
    LET tc_pr == find_child(tg, ks, cell, "tcPr")
        span == node_int(acc.attrs, find_child(tg, ks, tc_pr, "gridSpan"), 1)
        end == acc.cursor + span
        tc_w == find_child(tg, ks, tc_pr, "tcW")
        unit == acc.attrs[tc_w].type
        actual == safe_int(acc.attrs[tc_w].w)
        expected == slice_sum(widths, acc.cursor, end)
    IN IF tc_pr = 0 THEN acc
       ELSE IF tc_w = 0 \/ end > Len(widths) THEN [acc EXCEPT !.cursor = end]
       ELSE IF unit \notin {UNSET, "", "dxa"} THEN [acc EXCEPT !.cursor = end]
       ELSE IF ~actual.ok \/ expected <= 0 THEN [acc EXCEPT !.cursor = end]
       ELSE IF expected = 0 THEN [acc EXCEPT !.raised = "ZeroDivisionError"]
       ELSE IF drift_exceeds(actual.v, expected)
            THEN [acc EXCEPT
                    !.attrs[tc_w].w = INT(expected),
                    !.events = Append(@, RepairEvent("align-grid", "tcW",
                                                     <<actual.v, expected>>, 1)),
                    !.touched = @ + 1,
                    !.cursor = end]
            ELSE [acc EXCEPT !.cursor = end]

\* One iteration of the cell loop (lines 94-128).  acc is the running state
\* [attrs, events, touched, cursor, raised]; raised is the exception the
\* division at line 118 lets out ("" if none).
cell_step(acc, tg, ks, cell, widths) ==
    LET tc_pr == find_child(tg, ks, cell, "tcPr")
        span == node_int(acc.attrs, find_child(tg, ks, tc_pr, "gridSpan"), 1)
        end == acc.cursor + span
        tc_w == find_child(tg, ks, tc_pr, "tcW")
        unit == acc.attrs[tc_w].type
        actual == safe_int(acc.attrs[tc_w].w)
        expected == slice_sum(widths, acc.cursor, end)
    IN IF tc_pr = 0 THEN [acc EXCEPT !.cursor = @ + 1]
       ELSE IF tc_w = 0 \/ end > Len(widths) THEN [acc EXCEPT !.cursor = end]
       ELSE IF unit \notin {UNSET, "", "dxa"} THEN [acc EXCEPT !.cursor = end]
       ELSE IF ~actual.ok \/ expected <= 0 THEN [acc EXCEPT !.cursor = end]
       ELSE IF expected = 0 THEN [acc EXCEPT !.raised = "ZeroDivisionError"]
       ELSE IF drift_exceeds(actual.v, expected)
            THEN [acc EXCEPT
                    !.attrs[tc_w].w = INT(expected),
                    !.events = Append(@, RepairEvent("align-grid", "tcW",
                                                     <<actual.v, expected>>, 1)),
                    !.touched = @ + 1,
                    !.cursor = end]
            ELSE [acc EXCEPT !.cursor = end]

RECURSIVE cell_loop(_, _, _, _, _)
cell_loop(acc, tg, ks, cells, widths) ==
    IF cells = <<>> \/ acc.raised # "" THEN acc
    ELSE CHOOSE out \in
            {cell_loop(a1, tg, ks, Tail(cells), widths) :
               a1 \in {cell_step(acc, tg, ks, Head(cells), widths)}} : TRUE

\* The row loop (lines 91-93): the cursor starts at 0 in every row.
RECURSIVE row_loop(_, _, _, _, _)
row_loop(acc, tg, ks, rows, widths) ==
    IF rows = <<>> \/ acc.raised # "" THEN acc
    ELSE CHOOSE out \in
            {row_loop(a1, tg, ks, Tail(rows), widths) :
               a1 \in {cell_loop([acc EXCEPT !.cursor = 0], tg, ks,
                                 findall(tg, ks, Head(rows), "tc"), widths)}} : TRUE

\* The table loop (lines 85-91).
RECURSIVE table_loop(_, _, _, _)
table_loop(acc, tg, ks, tables) ==
    IF tables = <<>> \/ acc.raised # "" THEN acc
    ELSE LET table == Head(tables)
             g == grid_widths(tg, ks, acc.attrs, find_child(tg, ks, table, "tblGrid"))
         IN CHOOSE out \in
              {table_loop(a1, tg, ks, Tail(tables)) :
                 a1 \in {IF ~g.ok THEN acc
                         ELSE row_loop(acc, tg, ks,
                                       findall(tg, ks, table, "tr"), g.widths)}} : TRUE

\* DocumentFixer.align_grid(root): the attributes and events it leaves, the
\* count it returns (the events are appended to, never cleared) and the
\* exception it lets out, if any.
align_grid(tg, ks, at, evs, root) ==
    table_loop([attrs |-> at, events |-> evs, touched |-> 0, cursor |-> 0,
                raised |-> ""],
               tg, ks, iter_non_nested_tables(tg, ks, root))

(***************************************************************************)
(* Validation report (check/report.py) and the annotation-links detector   *)
(* (check/detectors.py).                                                   *)
(***************************************************************************)
BLOCKER == "blocker"
WARNING == "warning"
HINT == "hint"
Issue(gravity, location, summary) ==
    [gravity |-> gravity, location |-> location, summary |-> summary]
\* ValidationReport.blocker / warning: the issue list after the append.
blocker(iss, location, summary) == Append(iss, Issue(BLOCKER, location, summary))
warning(iss, location, summary) == Append(iss, Issue(WARNING, location, summary))

\* What a scan leaves: the report's issues and the exception it raised
\* ("" if it returned).
Outcome(iss, exc) == [issues |-> iss, raised |-> exc]

\* {x.get(id) for x in nodes if x.get(id)}: an absent or empty id is dropped.
truthy_ids(raw) == {raw[i] : i \in 1..Len(raw)} \ {UNSET, ""}

\* for rid in ids: report.blocker(f"comment/{rid}", summary), the set being
\* iterated in the order given.
RECURSIVE blocker_each(_, _, _)
blocker_each(iss, ids, summary) ==
    IF ids = <<>> THEN iss
    ELSE blocker_each(blocker(iss, "comment/" \o Head(ids), summary), Tail(ids), summary)

\* A plausible slip: every reference reported, resolved or not.
annotation_scan_no_lookup(mp, rf, cm, iss, order) ==
    IF mp = "missing" THEN Outcome(iss, "FileNotFoundError")
    ELSE IF mp = "malformed" THEN Outcome(iss, "ParseError")
    ELSE LET referenced_ids == truthy_ids(rf)
         IN IF referenced_ids = {} THEN Outcome(iss, "")
            ELSE IF cm.state = "absent"
            THEN Outcome(blocker_each(iss, Filter(order, referenced_ids),
                     "Comment reference exists but comments.xml is missing"), "")
            ELSE IF cm.state = "malformed" THEN Outcome(iss, "ParseError")
            ELSE Outcome(blocker_each(iss, Filter(order, referenced_ids),
                     "Reference points to undefined comment entry"), "")

\* AnnotationLinkDetector.scan(ctx).  mp is the state of word/document.xml,
\* rf the w:id values of its commentRangeStart elements, cm the comments
\* part, iss the report so far; order is the order in which Python iterates
\* a set of these ids.
annotation_scan(mp, rf, cm, iss, order) ==
    IF mp = "missing" THEN Outcome(iss, "FileNotFoundError")
    ELSE IF mp = "malformed" THEN Outcome(iss, "ParseError")
    ELSE LET referenced_ids == truthy_ids(rf)
             defined_ids == truthy_ids(cm.ids)
             orphans == referenced_ids \ defined_ids
         IN IF referenced_ids = {} THEN Outcome(iss, "")
            ELSE IF cm.state = "absent"
            THEN Outcome(blocker_each(iss, Filter(order, referenced_ids),
                     "Comment reference exists but comments.xml is missing"), "")
            ELSE IF cm.state = "malformed" THEN Outcome(iss, "ParseError")
            ELSE Outcome(blocker_each(iss, Filter(order, orphans),
                     "Reference points to undefined comment entry"), "")


(***************************************************************************)
(* The grid-consistency detector: GridConsistencyDetector.scan,            *)
(* check/detectors.py.                                                     *)
(***************************************************************************)
\* `raw and raw.isdigit()` on an attribute value: a non-empty string of
\* digits (str(n) has a sign when n is negative).
is_digits(raw) == raw.k = "int" /\ raw.v >= 0

\* root.findall(".//tbl"): the tbl descendants of the root, in document order.
findall_descendants(tg, ks, root, name) ==
    LET order == Tail(preorder(ks, <<root>>))
    IN Filter(order, {n \in Range(order) : tg[n] = name})

\* Lines 90-94: the widths of the columns whose w is a string of digits.
RECURSIVE defined_widths(_, _)
defined_widths(at, cols) ==
    IF cols = <<>> THEN <<>>
    ELSE (IF is_digits(at[Head(cols)].w) THEN <<at[Head(cols)].w.v>> ELSE <<>>)
         \o defined_widths(at, Tail(cols))

\* A plausible slip: the repair tolerance used.
scan_drift_exceeds_repair(actual, expected) == 25 * Abs(actual - expected) > expected

\* abs(actual - expected) / expected > 0.08 (line 123), expected > 0: as for
\* drift_exceeds, the comparison of doubles agrees with the exact one,
\* 25 * |actual - expected| > 2 * expected.
scan_drift_exceeds(actual, expected) == 25 * Abs(actual - expected) > 2 * expected

\* One iteration of the cell loop (lines 103-129); acc is [issues, cursor],
\* loc the location string of the row.
scan_cell_step(acc, tg, ks, at, cell, widths, loc) ==
    LET tc_pr == find_child(tg, ks, cell, "tcPr")
        span_elem == find_child(tg, ks, tc_pr, "gridSpan")
        span == IF span_elem # 0 /\ is_digits(at[span_elem].val)
                THEN at[span_elem].val.v ELSE 1
        tc_w == find_child(tg, ks, tc_pr, "tcW")
        expected == slice_sum(widths, acc.cursor, acc.cursor + span)
        actual == at[tc_w].w.v
    IN IF tc_pr = 0 THEN [acc EXCEPT !.cursor = @ + 1]
       ELSE IF tc_w # 0 /\ is_digits(at[tc_w].w)
                /\ expected > 0 /\ scan_drift_exceeds(actual, expected)
            THEN [issues |-> warning(acc.issues, loc,
                                     "Cell width " \o ToString(actual)
                                        \o " deviates from grid sum "
                                        \o ToString(expected)),
                  cursor |-> acc.cursor + span]
            ELSE [acc EXCEPT !.cursor = @ + span]

RECURSIVE scan_cell_loop(_, _, _, _, _, _, _)
scan_cell_loop(acc, tg, ks, at, cells, widths, loc) ==
    IF cells = <<>> THEN acc
    ELSE CHOOSE out \in
            {scan_cell_loop(a1, tg, ks, at, Tail(cells), widths, loc) :
               a1 \in {scan_cell_step(acc, tg, ks, at, Head(cells), widths, loc)}} : TRUE

\* The row loop (lines 99-101); row_idx counts from 1.
RECURSIVE scan_row_loop(_, _, _, _, _, _, _, _)
scan_row_loop(iss, tg, ks, at, rows, widths, idx, row_idx) ==
    IF rows = <<>> THEN iss
    ELSE CHOOSE out \in
            {scan_row_loop(a1.issues, tg, ks, at, Tail(rows), widths, idx, row_idx + 1) :
               a1 \in {scan_cell_loop([issues |-> iss, cursor |-> 0], tg, ks, at,
                          findall(tg, ks, Head(rows), "tc"), widths,
                          "table[" \o ToString(idx) \o "]/row["
                             \o ToString(row_idx) \o "]")}} : TRUE

\* The table loop (lines 84-97); idx counts from 1.
RECURSIVE scan_table_loop(_, _, _, _, _, _)
scan_table_loop(iss, tg, ks, at, tables, idx) ==
    IF tables = <<>> THEN iss
    ELSE LET tbl == Head(tables)
             grid == find_child(tg, ks, tbl, "tblGrid")
             widths == IF grid = 0 THEN <<>>
                       ELSE defined_widths(at, findall(tg, ks, grid, "gridCol"))
         IN CHOOSE out \in
              {scan_table_loop(i1, tg, ks, at, Tail(tables), idx + 1) :
                 i1 \in {IF widths = <<>> THEN iss
                         ELSE scan_row_loop(iss, tg, ks, at,
                                 findall(tg, ks, tbl, "tr"), widths, idx, 1)}} : TRUE

\* GridConsistencyDetector.scan(ctx) on a context whose document root is
\* root: the issues of the report afterwards.
grid_scan(tg, ks, at, iss, root) ==
    scan_table_loop(iss, tg, ks, at, findall_descendants(tg, ks, root, "tbl"), 1)

(***************************************************************************)
(* OPC archive assembly (packaging/opc.py).  Strings whose characters the  *)
(* code looks at are taken through CodePoints, so that suffixes, prefixes  *)
(* and the order of two paths are computed as Python computes them.        *)
(***************************************************************************)
CodePoints ==
    ("/" :> <<47>>) @@
    ("." :> <<46>>) @@
    (".rels" :> <<46, 114, 101, 108, 115>>) @@
    ("ABCDEFGHIJKLMNOPQRSTUVWXYZ" :> <<65, 66, 67, 68, 69, 70, 71, 72, 73, 74, 75, 76, 77, 78, 79, 80, 81, 82, 83, 84, 85, 86, 87, 88, 89, 90>>) @@
    ("abcdefghijklmnopqrstuvwxyz" :> <<97, 98, 99, 100, 101, 102, 103, 104, 105, 106, 107, 108, 109, 110, 111, 112, 113, 114, 115, 116, 117, 118, 119, 120, 121, 122>>) @@
    ("[Content_Types].xml" :> <<91, 67, 111, 110, 116, 101, 110, 116, 95, 84, 121, 112, 101, 115, 93, 46, 120, 109, 108>>) @@
    ("_rels/.rels" :> <<95, 114, 101, 108, 115, 47, 46, 114, 101, 108, 115>>) @@
    ("media/img1.png" :> <<109, 101, 100, 105, 97, 47, 105, 109, 103, 49, 46, 112, 110, 103>>) @@
    ("word/_rels/document.xml.rels" :> <<119, 111, 114, 100, 47, 95, 114, 101, 108, 115, 47, 100, 111, 99, 117, 109, 101, 110, 116, 46, 120, 109, 108, 46, 114, 101, 108, 115>>) @@
    ("word/document.xml" :> <<119, 111, 114, 100, 47, 100, 111, 99, 117, 109, 101, 110, 116, 46, 120, 109, 108>>) @@
    ("/word/document.xml" :> <<47, 119, 111, 114, 100, 47, 100, 111, 99, 117, 109, 101, 110, 116, 46, 120, 109, 108>>) @@
    ("/word/_rels/document.xml.rels" :> <<47, 119, 111, 114, 100, 47, 95, 114, 101, 108, 115, 47, 100, 111, 99, 117, 109, 101, 110, 116, 46, 120, 109, 108, 46, 114, 101, 108, 115>>) @@
    ("/media/img1.png" :> <<47, 109, 101, 100, 105, 97, 47, 105, 109, 103, 49, 46, 112, 110, 103>>) @@
    ("png" :> <<112, 110, 103>>) @@
    ("PNG" :> <<80, 78, 71>>) @@
    ("xml" :> <<120, 109, 108>>) @@
    ("rels" :> <<114, 101, 108, 115>>) @@
    ("" :> <<>>)
Slash == CodePoints["/"][1]
Dot == CodePoints["."][1]
Uppercase == CodePoints["ABCDEFGHIJKLMNOPQRSTUVWXYZ"]
Lowercase == CodePoints["abcdefghijklmnopqrstuvwxyz"]

\* str.lower() on ASCII text.
lower(cs) ==
    [i \in 1..Len(cs) |->
        IF FirstIndex(Uppercase, cs[i]) # 0
        THEN Lowercase[FirstIndex(Uppercase, cs[i])] ELSE cs[i]]
\* str.lstrip(ch)
RECURSIVE lstrip(_, _)
lstrip(cs, ch) == IF cs # <<>> /\ Head(cs) = ch THEN lstrip(Tail(cs), ch) ELSE cs
\* str.endswith(suffix)
endswith(cs, suffix) ==
    /\ Len(cs) >= Len(suffix)
    /\ SubSeq(cs, Len(cs) - Len(suffix) + 1, Len(cs)) = suffix
\* str.count(ch)
count(cs, ch) == Cardinality({i \in 1..Len(cs) : cs[i] = ch})
\* str.rfind(ch) + 1: the last position of ch, 0 if there is none.
rfind(cs, ch) == LastIndex(cs, ch)
\* PurePath.suffix: the last dot of the final component and what follows it,
\* unless that dot starts or ends the component.
suffix(cs) ==
    LET name == SubSeq(cs, rfind(cs, Slash) + 1, Len(cs))
        i == rfind(name, Dot)
    IN IF 1 < i /\ i < Len(name) THEN SubSeq(name, i, Len(name)) ELSE <<>>
\* a < b on str: the first differing code point decides, a proper prefix is
\* smaller.
RECURSIVE str_less(_, _)
str_less(a, b) ==
    IF b = <<>> THEN FALSE
    ELSE IF a = <<>> THEN TRUE
    ELSE IF Head(a) # Head(b) THEN Head(a) < Head(b)
    ELSE str_less(Tail(a), Tail(b))

MAIN_DOCUMENT_CT ==
    "application/vnd.openxmlformats-officedocument.wordprocessingml.document.main+xml"
RELATIONSHIPS_CT == "application/vnd.openxmlformats-package.relationships+xml"
CORE_PROPERTIES_CT == "application/vnd.openxmlformats-package.core-properties+xml"
OCTET_STREAM == "application/octet-stream"

\* ContentTypeManifest._parse: the two dictionaries left by the children of
\* the manifest root, each child [tag, key, ct] (key the Extension or
\* PartName attribute, "" when absent).  A manifest that does not parse
\* leaves both empty.
EmptyManifest == [defaults |-> <<>>, overrides |-> <<>>]
Put(dict, k, v) == (k :> v) @@ dict
RECURSIVE parse_children(_, _)
parse_children(m, children) ==
    IF children = <<>> THEN m
    ELSE LET child == Head(children)
             ext == lower(CodePoints[child.key])
             part == CodePoints[child.key]
             next == IF child.tag = "Default" /\ ext # <<>>
                     THEN [m EXCEPT !.defaults = Put(@, ext, child.ct)]
                     ELSE IF child.tag = "Override" /\ part # <<>>
                     THEN [m EXCEPT !.overrides = Put(@, lstrip(part, Slash), child.ct)]
                     ELSE m
         IN parse_children(next, Tail(children))
manifest_parse(en) ==
    IF ~en.ok THEN EmptyManifest ELSE parse_children(EmptyManifest, en.children)

\* ContentTypeManifest.get_content_type
get_content_type(m, part_name) ==
    LET normalized == lstrip(part_name, Slash)
        ext == lower(lstrip(suffix(normalized), Dot))
    IN IF normalized \in DOMAIN m.overrides THEN m.overrides[normalized]
       ELSE IF ext \in DOMAIN m.defaults THEN m.defaults[ext]
       ELSE OCTET_STREAM

CONTENT_TYPE_CATEGORIES ==
    ("application/vnd.openxmlformats-package.relationships+xml" :>
        "relationships") @@
    ("application/vnd.openxmlformats-package.core-properties+xml" :>
        "metadata") @@
    ("application/vnd.openxmlformats-officedocument.extended-properties+xml" :>
        "metadata") @@
    ("application/vnd.openxmlformats-officedocument.custom-properties+xml" :>
        "metadata") @@
    ("application/vnd.openxmlformats-officedocument.wordprocessingml.document.main+xml" :>
        "main_document") @@
    ("application/vnd.openxmlformats-officedocument.wordprocessingml.styles+xml" :>
        "definitions") @@
    ("application/vnd.openxmlformats-officedocument.wordprocessingml.numbering+xml" :>
        "definitions") @@
    ("application/vnd.openxmlformats-officedocument.wordprocessingml.settings+xml" :>
        "definitions") @@
    ("application/vnd.openxmlformats-officedocument.wordprocessingml.fontTable+xml" :>
        "definitions") @@
    ("application/vnd.openxmlformats-officedocument.wordprocessingml.webSettings+xml" :>
        "definitions") @@
    ("application/vnd.openxmlformats-officedocument.theme+xml" :>
        "theming") @@
    ("application/vnd.openxmlformats-officedocument.wordprocessingml.header+xml" :>
        "page_layout") @@
    ("application/vnd.openxmlformats-officedocument.wordprocessingml.footer+xml" :>
        "page_layout") @@
    ("application/vnd.openxmlformats-officedocument.wordprocessingml.comments+xml" :>
        "annotations") @@
    ("application/vnd.openxmlformats-officedocument.wordprocessingml.footnotes+xml" :>
        "annotations") @@
    ("application/vnd.openxmlformats-officedocument.wordprocessingml.endnotes+xml" :>
        "annotations") @@
    ("image/png" :>
        "media") @@
    ("image/jpeg" :>
        "media") @@
    ("image/gif" :>
        "media") @@
    ("image/tiff" :>
        "media") @@
    ("image/x-emf" :>
        "media") @@
    ("image/x-wmf" :>
        "media")
CATEGORY_ORDER ==
    [manifest |-> 0,
     relationships |-> 1,
     metadata |-> 2,
     main_document |-> 3,
     definitions |-> 4,
     theming |-> 5,
     page_layout |-> 6,
     annotations |-> 7,
     media |-> 8,
     unknown |-> 9]

\* A plausible slip: the declared content type consulted first, the path
\* only for parts whose type the table does not know.
classify_by_content_type(m, part_name) ==
    LET ct == get_content_type(m, CodePoints[part_name])
    IN IF ct \in DOMAIN CONTENT_TYPE_CATEGORIES THEN CONTENT_TYPE_CATEGORIES[ct]
       ELSE IF part_name = "[Content_Types].xml" THEN "manifest"
       ELSE IF endswith(CodePoints[part_name], CodePoints[".rels"]) THEN "relationships"
       ELSE "unknown"

\* OPCPartClassifier.classify
classify(m, part_name) ==
    IF part_name = "[Content_Types].xml" THEN "manifest"
    ELSE IF endswith(CodePoints[part_name], CodePoints[".rels"]) THEN "relationships"
    ELSE LET ct == get_content_type(m, CodePoints[part_name])
         IN IF ct \in DOMAIN CONTENT_TYPE_CATEGORIES
            THEN CONTENT_TYPE_CATEGORIES[ct] ELSE "unknown"

\* A plausible slip: the category left out of the key.
sort_key_by_path(m, part_name) == <<0, 0, CodePoints[part_name]>>

\* A plausible slip: the depth taken for every part, not only relationships.
sort_key_with_depth(m, part_name) ==
    <<CATEGORY_ORDER[classify(m, part_name)], count(CodePoints[part_name], Slash),
      CodePoints[part_name]>>

\* OPCPartClassifier.sort_key
sort_key(m, part_name) ==
    LET category == classify(m, part_name)
    IN <<CATEGORY_ORDER[category],
         IF category = "relationships" THEN count(CodePoints[part_name], Slash) ELSE 0,
         CodePoints[part_name]>>

\* a < b on the key tuples.
part_key_less(a, b) ==
    \/ a[1] < b[1]
    \/ a[1] = b[1] /\ a[2] < b[2]
    \/ a[1] = b[1] /\ a[2] = b[2] /\ str_less(a[3], b[3])

\* sorted(all_files, key=...): a stable sort.
RECURSIVE insert_part(_, _, _)
insert_part(m, done, part) ==
    IF done = <<>> THEN <<part>>
    ELSE IF part_key_less(sort_key(m, part), sort_key(m, Head(done)))
    THEN <<part>> \o done
    ELSE <<Head(done)>> \o insert_part(m, Tail(done), part)
RECURSIVE sorted_parts(_, _)
sorted_parts(m, parts) ==
    IF parts = <<>> THEN <<>>
    ELSE insert_part(m, sorted_parts(m, SubSeq(parts, 1, Len(parts) - 1)), parts[Len(parts)])

\* OPCPackager.repackage: the members written, in order.  all_files is the
\* listing rglob returns, en the content of [Content_Types].xml.
repackage(all_files, en) ==
    LET manifest == IF "[Content_Types].xml" \in Range(all_files)
                    THEN manifest_parse(en) ELSE EmptyManifest
    IN sorted_parts(manifest, all_files)

(***************************************************************************)
(* Validation pipeline (check/pipeline.py).  A detector is anything with a *)
(* name and a scan method (the Detector protocol): here, the issues its    *)
(* scan appends and the exception it then raises, if any.                  *)
(***************************************************************************)
Exc(type, msg) == [type |-> type, msg |-> msg]
NoExc == Exc("", "")
\* reads: does scan read ctx.document_root before it reports anything (as the
\* built-in detectors do)?
Detector(name, reads, emits, raises) ==
    [name |-> name, reads |-> reads, emits |-> emits, raises |-> raises]
\* ScanContext over the extracted package: the state of word/document.xml.
ScanContext(file) == [mainPart |-> IF file = "nomain" THEN "missing" ELSE "ok"]
\* ScanContext.document_root: the exception it raises, NoExc if it returns.
document_root(ctx) ==
    IF ctx.mainPart = "missing" THEN Exc("FileNotFoundError", "Missing document.xml")
    ELSE NoExc
\* detector.scan(ctx): the report afterwards and the exception raised.
detector_scan(det, ctx, iss) ==
    IF det.reads /\ document_root(ctx) # NoExc
    THEN [issues |-> iss, raised |-> document_root(ctx)]
    ELSE [issues |-> iss \o det.emits, raised |-> det.raises]

\* A plausible slip: the loop left at the first detector that fails.
RECURSIVE run_loop_until_fault(_, _, _, _)
run_loop_until_fault(dets, dis, ctx, acc) ==
    IF dets = <<>> THEN acc
    ELSE LET detector == Head(dets)
             out == detector_scan(detector, ctx, acc.issues)
         IN IF detector.name \in dis THEN run_loop_until_fault(Tail(dets), dis, ctx, acc)
            ELSE IF out.raised = NoExc
            THEN run_loop_until_fault(Tail(dets), dis, ctx,
                    [issues |-> out.issues, scanned |-> Append(acc.scanned, detector.name)])
            ELSE [issues |-> warning(out.issues, "detector/" \o detector.name,
                                     "Detector failed: " \o out.raised.type
                                        \o ": " \o out.raised.msg),
                  scanned |-> Append(acc.scanned, detector.name)]

\* A plausible slip: the disabled set not consulted.
RECURSIVE run_loop_all(_, _, _, _)
run_loop_all(dets, dis, ctx, acc) ==
    IF dets = <<>> THEN acc
    ELSE LET detector == Head(dets)
             out == detector_scan(detector, ctx, acc.issues)
         IN run_loop_all(Tail(dets), dis, ctx,
                    [issues |-> IF out.raised = NoExc THEN out.issues
                                ELSE warning(out.issues, "detector/" \o detector.name,
                                             "Detector failed: " \o out.raised.type
                                                \o ": " \o out.raised.msg),
                     scanned |-> Append(acc.scanned, detector.name)])

\* The detector loop of run (lines 73-82); acc is [issues, scanned].
RECURSIVE run_loop(_, _, _, _)
run_loop(dets, dis, ctx, acc) ==
    IF dets = <<>> THEN acc
    ELSE LET detector == Head(dets)
             out == detector_scan(detector, ctx, acc.issues)
         IN IF detector.name \in dis THEN run_loop(Tail(dets), dis, ctx, acc)
            ELSE run_loop(Tail(dets), dis, ctx,
                    [issues |-> IF out.raised = NoExc THEN out.issues
                                ELSE warning(out.issues, "detector/" \o detector.name,
                                             "Detector failed: " \o out.raised.type
                                                \o ": " \o out.raised.msg),
                     scanned |-> Append(acc.scanned, detector.name)])

\* A plausible slip: the detectors run on whatever was extracted.
extract_and_scan_lenient(file, dets, dis) ==
    IF file = "unreadable"
    THEN [issues |-> <<>>, scanned |-> <<>>, raised |-> "PermissionError"]
    ELSE LET first == IF file = "badzip"
                      THEN blocker(<<>>, "archive", "File is not a valid ZIP archive")
                      ELSE <<>>
             acc == run_loop(dets, dis, ScanContext(file),
                             [issues |-> first, scanned |-> <<>>])
         IN [issues |-> acc.issues, scanned |-> acc.scanned, raised |-> ""]

\* The body of the with block of run (lines 62-82): what it leaves in the
\* report, the scans made, and the exception it ends with ("" if none).  A
\* file that cannot be opened makes zipfile raise something other than
\* BadZipFile, which nothing here catches.
extract_and_scan(file, dets, dis) ==
    IF file = "unreadable"
    THEN [issues |-> <<>>, scanned |-> <<>>, raised |-> "PermissionError"]
    ELSE IF file = "badzip"
    THEN [issues |-> blocker(<<>>, "archive", "File is not a valid ZIP archive"),
          scanned |-> <<>>, raised |-> ""]
    ELSE LET acc == run_loop(dets, dis, ScanContext(file),
                             [issues |-> <<>>, scanned |-> <<>>])
         IN [issues |-> acc.issues, scanned |-> acc.scanned, raised |-> ""]

\* A plausible slip: the directory removed on the normal path only.
with_tmpdir_unless_raised(out) ==
    [issues |-> out.issues, scanned |-> out.scanned, raised |-> out.raised,
     tmpdir |-> IF out.raised = "" THEN "removed" ELSE "left"]

\* with TemporaryDirectory() as tmp (line 61): the directory exists while the
\* body runs and is removed when the block is left, however it is left.
with_tmpdir(out) ==
    [issues |-> out.issues, scanned |-> out.scanned, raised |-> out.raised,
     tmpdir |-> "removed"]

\* ValidationPipeline.run(docx_path): the report returned (or left behind),
\* the scans made, the exception let out and the temporary directory.
run(file, dets, dis) ==
    IF file = "missing"
    THEN [issues |-> <<>>, scanned |-> <<>>, raised |-> "FileNotFoundError",
          tmpdir |-> ""]
    ELSE with_tmpdir(extract_and_scan(file, dets, dis))

(***************************************************************************)
(* The lazy caches of ScanContext (check/detectors.py, lines 27-65): three *)
(* functools.cached_property attributes.  A context is [main, rels: the    *)
(* state of word/document.xml and word/_rels/document.xml.rels ("ok",      *)
(* "missing", "malformed"), cache: the attributes stored in the instance,  *)
(* reads, calls, failed: per attribute, how often it was read, how often   *)
(* its function ran and how often that run raised].                        *)
(***************************************************************************)
CacheNames == {"document_root", "parent_map", "relationships"}
PartStates == {"ok", "missing", "malformed"}
new_context(main, rels) ==
    [main |-> main, rels |-> rels, cache |-> {},
     reads |-> [p \in CacheNames |-> 0],
     calls |-> [p \in CacheNames |-> 0],
     failed |-> [p \in CacheNames |-> 0]]

RECURSIVE cached_get_uncached(_, _)
RECURSIVE cached_get(_, _)

\* The function behind an attribute, run on context c: the context afterwards
\* and the exception raised ("" if it returns).  parent_map reads
\* self.document_root; relationships returns {} when the part is missing.
property_body(c, p) ==
    LET c1 == [c EXCEPT !.calls[p] = @ + 1]
    IN CASE p = "document_root" ->
              [ctx |-> c1,
               raised |-> CASE c.main = "missing" -> "FileNotFoundError"
                            [] c.main = "malformed" -> "ParseError"
                            [] OTHER -> ""]
         [] p = "parent_map" -> cached_get(c1, "document_root")
         [] OTHER ->
              [ctx |-> c1,
               raised |-> IF c.rels = "malformed" THEN "ParseError" ELSE ""]

\* A plausible slip: a plain property, computed at every read.
cached_get_uncached(c, p) ==
    LET r == property_body([c EXCEPT !.reads[p] = @ + 1], p)
    IN IF r.raised = ""
       THEN [ctx |-> [r.ctx EXCEPT !.cache = @ \cup {p}], raised |-> ""]
       ELSE [ctx |-> [r.ctx EXCEPT !.failed[p] = @ + 1], raised |-> r.raised]

\* cached_property.__get__: the stored value if there is one, else the
\* function is run and its value stored; nothing is stored if it raises.
cached_get(c, p) ==
    LET c0 == [c EXCEPT !.reads[p] = @ + 1]
        r == property_body(c0, p)
    IN IF p \in c.cache THEN [ctx |-> c0, raised |-> ""]
       ELSE IF r.raised = ""
       THEN [ctx |-> [r.ctx EXCEPT !.cache = @ \cup {p}], raised |-> ""]
       ELSE [ctx |-> [r.ctx EXCEPT !.failed[p] = @ + 1], raised |-> r.raised]

\* A scan that reads the attributes of `accesses` in turn; the first
\* exception ends it (and reaches the except clause of run).
RECURSIVE scan_accesses(_, _)
scan_accesses(c, accesses) ==
    IF accesses = <<>> THEN [ctx |-> c, raised |-> ""]
    ELSE CHOOSE out \in
            {IF r.raised # "" THEN r ELSE scan_accesses(r.ctx, Tail(accesses)) :
               r \in {cached_get(c, Head(accesses))}} : TRUE

(***************************************************************************)
(* The other built-in detectors and the standard pipeline                  *)
(* (check/detectors.py, lines 132-315; check/pipeline.py, lines 46-97).    *)
(* mp is the state of word/document.xml, as in annotation_scan; every scan *)
(* reads ctx.document_root first.  rels is the relationships part:         *)
(* [state: "absent", "ok" or "malformed", ids: the Id values of its        *)
(* entries that have an Id and a Target].                                  *)
(***************************************************************************)
root_fault(mp) ==
    CASE mp = "missing" -> "FileNotFoundError"
      [] mp = "malformed" -> "ParseError"
      [] OTHER -> ""

\* for oid in ids: report.warning(f"{prefix}{oid}", summary)
RECURSIVE warning_each(_, _, _, _)
warning_each(iss, prefix, ids, summary) ==
    IF ids = <<>> THEN iss
    ELSE warning_each(warning(iss, prefix \o Head(ids), summary), prefix, Tail(ids),
                      summary)

\* for oid in ids: report.blocker(f"{prefix}{oid}", summary)
RECURSIVE fatal_each(_, _, _, _)
fatal_each(iss, prefix, ids, summary) ==
    IF ids = <<>> THEN iss
    ELSE fatal_each(blocker(iss, prefix \o Head(ids), summary), prefix, Tail(ids),
                    summary)

\* A plausible slip: an orphan bookmark start reported as a blocker.
bookmark_scan_fatal(mp, starts, ends, iss, order_starts, order_ends) ==
    LET start_ids == truthy_ids(starts)
        end_ids == truthy_ids(ends)
        s1 == fatal_each(iss, "bookmark/", Filter(order_starts, start_ids \ end_ids),
                         "bookmarkStart has no matching bookmarkEnd")
    IN IF root_fault(mp) # "" THEN Outcome(iss, root_fault(mp))
       ELSE Outcome(warning_each(s1, "bookmark/",
                        Filter(order_ends, end_ids \ start_ids),
                        "bookmarkEnd has no matching bookmarkStart"), "")

\* BookmarkIntegrityDetector.scan(ctx).  starts and ends are the w:id values
\* of the bookmarkStart and bookmarkEnd elements; order_starts and order_ends
\* the orders in which Python iterates the two sets of orphans.
bookmark_scan(mp, starts, ends, iss, order_starts, order_ends) ==
    LET start_ids == truthy_ids(starts)
        end_ids == truthy_ids(ends)
        s1 == warning_each(iss, "bookmark/", Filter(order_starts, start_ids \ end_ids),
                           "bookmarkStart has no matching bookmarkEnd")
    IN IF root_fault(mp) # "" THEN Outcome(iss, root_fault(mp))
       ELSE Outcome(warning_each(s1, "bookmark/",
                        Filter(order_ends, end_ids \ start_ids),
                        "bookmarkEnd has no matching bookmarkStart"), "")

\* The keys of seen_ids in insertion order: the ids of raw that are set and
\* not empty, each at its first occurrence.
RECURSIVE seen_order(_, _)
seen_order(raw, acc) ==
    IF raw = <<>> THEN acc
    ELSE IF Head(raw) \in {UNSET, ""} \cup Range(acc) THEN seen_order(Tail(raw), acc)
    ELSE seen_order(Tail(raw), Append(acc, Head(raw)))

RECURSIVE duplicate_loop(_, _, _)
duplicate_loop(iss, ids, raw) ==
    IF ids = <<>> THEN iss
    ELSE LET times == Cardinality({i \in 1..Len(raw) : raw[i] = Head(ids)})
         IN duplicate_loop(
               IF times > 1
               THEN warning(iss, "drawing/docPr[@id=" \o Head(ids) \o "]",
                            "Duplicate drawing ID found " \o ToString(times) \o " times")
               ELSE iss,
               Tail(ids), raw)

\* DrawingIdUniquenessDetector.scan(ctx).  docprs are the id values of the
\* docPr elements in document order.
drawing_scan(mp, docprs, iss) ==
    IF root_fault(mp) # "" THEN Outcome(iss, root_fault(mp))
    ELSE Outcome(duplicate_loop(iss, seen_order(docprs, <<>>), docprs), "")

\* ctx.relationships as a membership test: the exception it raises, or "".
relationships_fault(rels) == IF rels.state = "malformed" THEN "ParseError" ELSE ""
relationship_ids(rels) == IF rels.state = "ok" THEN rels.ids ELSE {}

\* HyperlinkValidityDetector.scan(ctx), the loop.  A hyperlink is [rid, anchor].
RECURSIVE hyperlink_loop(_, _, _)
hyperlink_loop(iss, links, rels) ==
    IF links = <<>> THEN Outcome(iss, "")
    ELSE LET hl == Head(links)
         IN IF hl.rid \in {UNSET, ""} THEN hyperlink_loop(iss, Tail(links), rels)
            ELSE IF relationships_fault(rels) # ""
            THEN Outcome(iss, relationships_fault(rels))
            ELSE IF hl.rid \notin relationship_ids(rels) /\ hl.anchor \in {UNSET, ""}
            THEN hyperlink_loop(warning(iss, "hyperlink/" \o hl.rid,
                                    "Hyperlink references missing relationship"),
                                Tail(links), rels)
            ELSE hyperlink_loop(iss, Tail(links), rels)

hyperlink_scan(mp, links, rels, iss) ==
    IF root_fault(mp) # "" THEN Outcome(iss, root_fault(mp))
    ELSE hyperlink_loop(iss, links, rels)

\* f"{a / b:.2f}" for positive integers a and b.
ratio_2f(a, b) ==
    LET cents == (200 * a + b) \div (2 * b)
        frac == cents % 100
    IN ToString(cents \div 100) \o "." \o
       (IF frac < 10 THEN "0" ELSE "") \o ToString(frac)

\* abs(src_ratio - doc_ratio) / src_ratio > 0.03, with src_ratio = w / h and
\* doc_ratio = cx / cy, all four positive.
ratio_drift_exceeds(w, h, cx, cy) == 100 * Abs(w * cy - cx * h) > 3 * w * cy

\* AspectRatioDetector.scan(ctx), the loop.  A blip is [embed: its r:embed,
\* image: "absent" (no file at the target), "unreadable" (Image.open
\* raises) or "ok", w, h: the size of the image, extent: has an extent
\* ancestor, cx, cy: the integer values of its attributes (0: unset)].
RECURSIVE aspect_loop(_, _, _)
aspect_loop(iss, blips, rels) ==
    IF blips = <<>> THEN Outcome(iss, "")
    ELSE LET b == Head(blips)
         IN IF b.embed \in {UNSET, ""} THEN aspect_loop(iss, Tail(blips), rels)
            ELSE IF relationships_fault(rels) # ""
            THEN Outcome(iss, relationships_fault(rels))
            ELSE IF \/ b.embed \notin relationship_ids(rels)
                    \/ b.image # "ok" \/ b.h = 0
                    \/ ~b.extent \/ b.cx = 0 \/ b.cy = 0
            THEN aspect_loop(iss, Tail(blips), rels)
            ELSE IF ratio_drift_exceeds(b.w, b.h, b.cx, b.cy)
            THEN aspect_loop(warning(iss, "image/" \o b.embed,
                                 "Aspect ratio changed from " \o ratio_2f(b.w, b.h)
                                    \o " to " \o ratio_2f(b.cx, b.cy)),
                             Tail(blips), rels)
            ELSE aspect_loop(iss, Tail(blips), rels)

\* pil: can PIL be imported.
aspect_scan(pil, mp, blips, rels, iss) ==
    IF ~pil THEN Outcome(iss, "")
    ELSE IF root_fault(mp) # "" THEN Outcome(iss, root_fault(mp))
    ELSE aspect_loop(iss, blips, rels)

\* ValidationPipeline.standard(): the names of the detectors it registers.
STANDARD_DETECTORS ==
    <<"grid-consistency", "aspect-ratio", "annotation-links", "bookmark-integrity",
      "drawing-id-uniqueness", "hyperlink-validity">>

\* str(e) for the exceptions the parts raise.
fault_text(type) ==
    CASE type = "FileNotFoundError" -> "Missing document.xml in unpacked"
      [] OTHER -> "no element found: line 1, column 0"

\* detector.scan(ctx) for the built-in detector called name, on package doc
\* with the report holding iss.  ord are the set iteration orders of the run.
builtin_scan(name, doc, iss, ord) ==
    CASE name = "grid-consistency" ->
            IF root_fault(doc.main) # "" THEN Outcome(iss, root_fault(doc.main))
            ELSE Outcome(grid_scan(doc.tree.tag, doc.tree.kids, doc.tree.attrs, iss, 1),
                         "")
      [] name = "aspect-ratio" ->
            aspect_scan(doc.pil, doc.main, doc.blips, doc.rels, iss)
      [] name = "annotation-links" ->
            annotation_scan(doc.main, doc.refs, doc.comments, iss, ord[1])
      [] name = "bookmark-integrity" ->
            bookmark_scan(doc.main, doc.starts, doc.ends, iss, ord[2], ord[3])
      [] name = "drawing-id-uniqueness" -> drawing_scan(doc.main, doc.docprs, iss)
      [] OTHER -> hyperlink_scan(doc.main, doc.links, doc.rels, iss)

\* run, lines 72-81, over the built-in detectors.
RECURSIVE standard_loop(_, _, _, _, _)
standard_loop(names, dis, doc, acc, ord) ==
    IF names = <<>> THEN acc
    ELSE IF Head(names) \in dis THEN standard_loop(Tail(names), dis, doc, acc, ord)
    ELSE CHOOSE res \in
            {standard_loop(Tail(names), dis, doc,
                [issues |-> IF out.raised = "" THEN out.issues
                            ELSE warning(out.issues, "detector/" \o Head(names),
                                     "Detector failed: " \o out.raised \o ": "
                                        \o fault_text(out.raised)),
                 scanned |-> Append(acc.scanned, Head(names))], ord) :
               out \in {builtin_scan(Head(names), doc, acc.issues, ord)}} : TRUE

\* ValidationPipeline.standard().run(path) on an existing file, after the
\* skip calls that left dis disabled: the report and the detectors scanned.
standard_run(doc, dis, ord) ==
    IF doc.zip = "badzip"
    THEN [issues |-> blocker(<<>>, "archive", "File is not a valid ZIP archive"),
          scanned |-> <<>>]
    ELSE standard_loop(STANDARD_DETECTORS, dis, doc,
                       [issues |-> <<>>, scanned |-> <<>>], ord)

(***************************************************************************)
(* Bounds of the model.                                                    *)
(***************************************************************************)
MaxKids == 4        \* most children of the container in the node-level runs
MaxRuns == 2        \* most consecutive runs of one operation
MaxNodes == 5       \* most nodes of a tree handed to fix_all
MaxGridNodes == 11  \* most nodes of a tree handed to align_grid
MaxRefs == 2        \* most commentRangeStart elements of the main part
MaxComments == 2    \* most comment elements of the comments part
MaxEntries == 2     \* most children of the root of [Content_Types].xml
MaxDetectors == 3   \* most detectors registered with a pipeline
MaxSkipped == 2     \* most detectors of the standard pipeline skipped before a run

OrderIdle == container = "" /\ sequence = <<>>

TreeIdle ==
    /\ tag = <<>> /\ kids = <<>> /\ target = <<>> /\ pre = <<>>
    /\ ret = 0 /\ runs = 0 /\ events = <<>> /\ orig = <<>>

GridIdle == attrs = <<>> /\ cur = 0
CheckIdle ==
    /\ mainPart = "" /\ refs = <<>> /\ comments = <<>>
    /\ issues = <<>> /\ raised = ""
    /\ detectors = <<>> /\ disabled = {} /\ docx = "" /\ scanned = <<>>
    /\ arg = "" /\ tmpdir = "" /\ context = <<>>
PackIdle == files = {} /\ entries = <<>> /\ archive = <<>>

\* What the actions of each specification leave alone besides their own
\* variables.
OrderFrame == <<treeVars, gridVars, checkVars, packVars>>
TreeFrame == <<profile, orderVars, gridVars, checkVars, packVars>>
GridFrame == <<profile, orderVars, target, orig, checkVars, packVars>>

OrderInit ==
    /\ op = "init"
    /\ container \in Containers
    /\ profile \in Profiles
    /\ sequence = <<>>
    /\ TreeIdle /\ GridIdle /\ CheckIdle /\ PackIdle

BuildSequence ==
    /\ op = "init"
    /\ sequence' = build_sequence(container, profile)
    /\ op' = "build_sequence"
    /\ UNCHANGED <<container, profile, OrderFrame>>

OrderNext == BuildSequence

SpecOrder == OrderInit /\ [][OrderNext]_vars

(***************************************************************************)
(* Node-level runs: sort_by_spec and ensure_sectpr_last called directly on *)
(* one container (node 1) whose children are nodes 2..n+1.                 *)
(***************************************************************************)
NodeTagPool == {"p", "tbl", "sectPr", "x"}
TargetPool == {"p", "tbl", "sectPr"}

\* The target sequences: sequences of distinct names, as every sequence the
\* registry builds is.
Targets ==
    {t \in UNION {[1..n -> TargetPool] : n \in 0..Cardinality(TargetPool)} :
        NoDuplicates(t)}

Snapshot == [tag |-> tag, kids |-> kids]

NextRuns(name) == IF op = name THEN runs + 1 ELSE 1
MayRun(name) == op = name => runs < MaxRuns

NodeInit ==
    /\ op = "init"
    /\ \E n \in 0..MaxKids :
        \E tags \in [2..(n + 1) -> NodeTagPool] :
            /\ tag = [i \in 1..(n + 1) |-> IF i = 1 THEN "body" ELSE tags[i]]
            /\ kids = [i \in 1..(n + 1) |->
                         IF i = 1 THEN [k \in 1..n |-> k + 1] ELSE <<>>]
    /\ target \in Targets
    /\ pre = <<>>
    /\ ret = 0 /\ runs = 0 /\ events = <<>> /\ orig = <<>>
    /\ profile = "" /\ OrderIdle /\ GridIdle /\ CheckIdle /\ PackIdle

SortBySpec ==
    /\ MayRun("sort_by_spec")
    /\ LET r == sort_by_spec(kids[1], tag, target)
       IN /\ kids' = [kids EXCEPT ![1] = r.children]
          /\ ret' = r.changed
    /\ pre' = Snapshot
    /\ op' = "sort_by_spec"
    /\ runs' = NextRuns("sort_by_spec")
    /\ UNCHANGED <<tag, target, events, orig, TreeFrame>>

EnsureSectprLast ==
    /\ MayRun("ensure_sectpr_last")
    /\ LET r == ensure_sectpr_last(kids[1], tag)
       IN /\ kids' = [kids EXCEPT ![1] = r.children]
          /\ ret' = r.changed
    /\ pre' = Snapshot
    /\ op' = "ensure_sectpr_last"
    /\ runs' = NextRuns("ensure_sectpr_last")
    /\ UNCHANGED <<tag, target, events, orig, TreeFrame>>

NodeNext == SortBySpec \/ EnsureSectprLast

SpecNode == NodeInit /\ [][NodeNext]_vars

(***************************************************************************)
(* Claims C2, C3, C5 (node-level).                                         *)
(***************************************************************************)
Recognized(n) == tag[n] \in Range(target)
OldKids == pre.kids[1]
NewKids == kids[1]
OldPos(n) == FirstIndex(OldKids, n)
IsPermutation(a, b) ==
    Len(a) = Len(b) /\ Range(a) = Range(b) /\ NoDuplicates(a) /\ NoDuplicates(b)

\* C2: after sort_by_spec the children are the same nodes, (a) the recognized
\* ones in nondecreasing order of their index in the target sequence, (b) the
\* unrecognized ones in their original relative order, (c) every unrecognized
\* one after every recognized one; children with the same tag keep their
\* relative order, and a node whose children are all unrecognized is unchanged.
C2_SortOrder ==
    op = "sort_by_spec" =>
        /\ IsPermutation(OldKids, NewKids)
        /\ tag = pre.tag
        /\ \A i, j \in 1..Len(NewKids) : i < j =>
            /\ (Recognized(NewKids[i]) /\ Recognized(NewKids[j]) =>
                  FirstIndex(target, tag[NewKids[i]]) <= FirstIndex(target, tag[NewKids[j]]))
            /\ (~Recognized(NewKids[i]) /\ ~Recognized(NewKids[j]) =>
                  OldPos(NewKids[i]) < OldPos(NewKids[j]))
            /\ ~(~Recognized(NewKids[i]) /\ Recognized(NewKids[j]))
            /\ (tag[NewKids[i]] = tag[NewKids[j]] =>
                  OldPos(NewKids[i]) < OldPos(NewKids[j]))
        /\ ((\A n \in Range(OldKids) : ~Recognized(n)) => NewKids = OldKids)

\* C2 witness: an unrecognized child that stood first was pushed behind two
\* recognized children that were themselves out of schema order.
C2_Witness ==
    /\ op = "sort_by_spec"
    /\ Len(OldKids) >= 3
    /\ ~Recognized(OldKids[1])
    /\ \E i, j \in 1..Len(OldKids) :
          /\ i < j /\ Recognized(OldKids[i]) /\ Recognized(OldKids[j])
          /\ FirstIndex(target, tag[OldKids[i]]) > FirstIndex(target, tag[OldKids[j]])
    /\ NewKids # OldKids
    /\ NewKids[Len(NewKids)] = OldKids[1]

\* C3: sort_by_spec returns True exactly when the child sequence changed; with
\* fewer than two children it returns False and changes nothing; a second call
\* with the same target returns False.
C3_SortReport ==
    op = "sort_by_spec" =>
        /\ ret = (NewKids # OldKids)
        /\ (Len(OldKids) < 2 => ret = FALSE /\ kids = pre.kids)
        /\ (ret = FALSE => kids = pre.kids /\ tag = pre.tag)
        /\ (runs >= 2 => ret = FALSE)

\* C3 witness: a second call in a row, on a child list of two or more, that
\* reports no change.
C3_Witness ==
    /\ op = "sort_by_spec" /\ runs = 2 /\ ret = FALSE
    /\ Len(NewKids) >= 2
    /\ \E n \in Range(NewKids) : Recognized(n)

IsSect(n) == tag[n] = "sectPr"
SectTrailing(s) == \A i, j \in 1..Len(s) : i < j /\ IsSect(s[i]) => IsSect(s[j])

\* C5: ensure_sectpr_last moves the sectPr children behind the others, both
\* groups in their original relative order, and returns True, when some sectPr
\* child is not trailing; otherwise it returns False and changes nothing.
\* [p, sectPr, p, sectPr] becomes [p, p, sectPr, sectPr].
C5_BodyTail ==
    op = "ensure_sectpr_last" =>
        /\ tag = pre.tag
        /\ IF (\E n \in Range(OldKids) : IsSect(n)) /\ ~SectTrailing(OldKids)
           THEN /\ ret = TRUE
                /\ IsPermutation(OldKids, NewKids)
                /\ SectTrailing(NewKids)
                /\ \A i, j \in 1..Len(NewKids) :
                      i < j /\ (IsSect(NewKids[i]) <=> IsSect(NewKids[j])) =>
                          OldPos(NewKids[i]) < OldPos(NewKids[j])
           ELSE ret = FALSE /\ NewKids = OldKids
        /\ ([i \in 1..Len(OldKids) |-> tag[OldKids[i]]] = <<"p", "sectPr", "p", "sectPr">> =>
              NewKids = <<OldKids[1], OldKids[3], OldKids[2], OldKids[4]>>)

\* C5 witness: the body [p, sectPr, p, sectPr] was rebuilt.
C5_Witness ==
    /\ op = "ensure_sectpr_last"
    /\ [i \in 1..Len(OldKids) |-> tag[OldKids[i]]] = <<"p", "sectPr", "p", "sectPr">>
    /\ ret = TRUE
    /\ [i \in 1..Len(NewKids) |-> tag[NewKids[i]]] = <<"p", "p", "sectPr", "sectPr">>

(***************************************************************************)
(* Claim C4 (order registry).                                              *)
(***************************************************************************)
Included(k) == ORDER_BOOK[container][k].level \in PROFILE_LEVELS[profile]
Declares(k, x) == x \in Range(ORDER_BOOK[container][k].elements)
\* The first included phase, in table order, that declares x.
FirstPhase(x) ==
    CHOOSE k \in 1..Len(ORDER_BOOK[container]) :
        /\ Included(k) /\ Declares(k, x)
        /\ \A m \in 1..(k - 1) : ~(Included(m) /\ Declares(m, x))

\* C4: build_sequence holds exactly the names of the included phases, each
\* once, ordered by the table position of the first included phase declaring
\* the name and, within one phase, by the position in that phase.
C4_BuildSequence ==
    op = "build_sequence" =>
        /\ NoDuplicates(sequence)
        /\ Range(sequence) =
             UNION {Range(ORDER_BOOK[container][k].elements) :
                      k \in {m \in 1..Len(ORDER_BOOK[container]) : Included(m)}}
        /\ \A i, j \in 1..Len(sequence) : i < j =>
              \/ FirstPhase(sequence[i]) < FirstPhase(sequence[j])
              \/ /\ FirstPhase(sequence[i]) = FirstPhase(sequence[j])
                 /\ FirstIndex(ORDER_BOOK[container][FirstPhase(sequence[i])].elements, sequence[i])
                      < FirstIndex(ORDER_BOOK[container][FirstPhase(sequence[j])].elements, sequence[j])

\* C4 witness: the style container under the minimal profile, whose two MUST
\* phases sit around a skipped SHOULD phase.
C4_Witness ==
    /\ op = "build_sequence" /\ container = "style" /\ profile = "minimal"
    /\ sequence = <<"name", "basedOn", "next", "qFormat",
                   "pPr", "rPr", "tblPr", "trPr", "tcPr", "tblStylePr">>

(***************************************************************************)
(* Tree-level runs: a tree is built element by element (ids in document    *)
(* order), then fix_all runs on its root, possibly several times.          *)
(***************************************************************************)
RootTags == {"body", "pPr"}

\* The child tags drawn under each parent tag.  In body: p and tbl (MUST),
\* bookmarkStart (MAY: registered only under compat and strict), sectPr.
\* In pPr: pStyle and jc around pBdr (MUST), keepNext (SHOULD: unregistered
\* under minimal), and the loose leaves top and left.
ChildTags(t) ==
    CASE t = "body" -> {"p", "tbl", "bookmarkStart", "sectPr"}
      [] t = "p"    -> {"pPr"}
      [] t = "pPr"  -> {"pStyle", "jc", "pBdr", "keepNext", "top", "left"}
      [] t = "pBdr" -> {"top", "left"}
      [] OTHER      -> {}

\* The nodes a new element may be appended to while keeping ids in document
\* order: the root, its last child, that child's last child, ...
RECURSIVE Spine(_, _)
Spine(ks, n) ==
    IF ks[n] = <<>> THEN {n} ELSE {n} \cup Spine(ks, ks[n][Len(ks[n])])

TreeInit ==
    /\ op = "init"
    /\ \E r \in RootTags : tag = <<r>>
    /\ kids = << <<>> >>
    /\ profile \in Profiles
    /\ target = <<>> /\ pre = <<>>
    /\ ret = 0 /\ runs = 0 /\ events = <<>> /\ orig = <<>>
    /\ OrderIdle /\ GridIdle /\ CheckIdle /\ PackIdle

\* ET.SubElement(parent, tag) while the input tree is built.
SubElement ==
    /\ op = "init"
    /\ Len(tag) < MaxNodes
    /\ \E parent \in Spine(kids, 1) :
        \E t \in ChildTags(tag[parent]) :
            /\ tag' = Append(tag, t)
            /\ kids' = [Append(kids, <<>>) EXCEPT ![parent] = Append(@, Len(tag) + 1)]
    /\ UNCHANGED <<op, target, pre, ret, runs, events, orig, TreeFrame>>

FixAll ==
    /\ MayRun("fix_all")
    /\ \E st \in {fix_all(tag, kids, events, 1, profile)} :
          /\ tag' = st.tag
          /\ kids' = st.kids
          /\ events' = st.events
          /\ ret' = st.changes
    /\ pre' = Snapshot
    /\ orig' = IF op = "init" THEN Snapshot ELSE orig
    /\ op' = "fix_all"
    /\ runs' = NextRuns("fix_all")
    /\ UNCHANGED <<target, TreeFrame>>

TreeNext == SubElement \/ FixAll

SpecTree == TreeInit /\ [][TreeNext]_vars

(***************************************************************************)
(* Claims C1, C6 (tree-level).                                             *)
(***************************************************************************)
\* C1: a second fix_all on the same tree returns 0 and leaves the event list
\* empty.
C1_FixAllIdempotent ==
    op = "fix_all" /\ runs >= 2 => ret = 0 /\ events = <<>>

LooseIn(t, n) == {c \in Range(t.kids[n]) : t.tag[c] \in BORDER_LEAVES}
GroupsIn(t, n) == {c \in Range(t.kids[n]) : t.tag[c] = "pBdr"}
BorderEvents ==
    {i \in 1..Len(events) : events[i].action = "wrap-border-group"}

\* C6: fix_all on a pPr that has loose border leaves and no pBdr leaves it
\* with exactly one pBdr, holding exactly those leaves, and no loose leaf; one
\* wrap-border-group event is recorded, its touched count the number of leaves;
\* a second fix_all records nothing.
C6_BorderGrouping ==
    ( /\ op = "fix_all"
      /\ orig.tag[1] = "pPr"
      /\ LooseIn(orig, 1) # {}
      /\ GroupsIn(orig, 1) = {} ) =>
        /\ Cardinality(GroupsIn(Snapshot, 1)) = 1
        /\ \A g \in GroupsIn(Snapshot, 1) : Range(kids[g]) = LooseIn(orig, 1)
        /\ \A g \in GroupsIn(Snapshot, 1) : Len(kids[g]) = Cardinality(LooseIn(orig, 1))
        /\ LooseIn(Snapshot, 1) = {}
        /\ (runs = 1 =>
              /\ Cardinality(BorderEvents) = 1
              /\ \A i \in BorderEvents :
                    events[i].touched = Cardinality(LooseIn(orig, 1))
                    /\ events[i].container = "pPr")
        /\ (runs >= 2 => events = <<>> /\ ret = 0)

\* C6 witness: a pPr that had loose left and top (in that order) and no pBdr,
\* after the second fix_all.
C6_Witness ==
    /\ op = "fix_all" /\ runs = 2
    /\ orig.tag[1] = "pPr"
    /\ GroupsIn(orig, 1) = {}
    /\ \E a, b \in LooseIn(orig, 1) :
          /\ orig.tag[a] = "left" /\ orig.tag[b] = "top"
          /\ FirstIndex(orig.kids[1], a) < FirstIndex(orig.kids[1], b)
          /\ \E g \in GroupsIn(Snapshot, 1) : kids[g] = <<b, a>>
    /\ events = <<>>

(***************************************************************************)
(* Grid-level runs: a table (with, possibly, a table nested in its last    *)
(* cell) is built in document order, then align_grid runs on the root.     *)
(***************************************************************************)
GridColPool == {INT(25), INT(50)}
\* The cells drawn: [pr: has tcPr, hasSpan/span: gridSpan and its val,
\* hasW/unit/w: tcW, its type and its w].
Cell(pr, hasSpan, span, hasW, unit, w) ==
    [pr |-> pr, hasSpan |-> hasSpan, span |-> span,
     hasW |-> hasW, unit |-> unit, w |-> w]
CellVariants ==
    {Cell(FALSE, FALSE, NONE, FALSE, UNSET, NONE),
     Cell(TRUE, TRUE, INT(2), FALSE, UNSET, NONE),
     Cell(TRUE, FALSE, NONE, TRUE, UNSET, INT(26)),
     Cell(TRUE, FALSE, NONE, TRUE, UNSET, INT(27)),
     Cell(TRUE, FALSE, NONE, TRUE, UNSET, TEXT),
     Cell(TRUE, FALSE, NONE, TRUE, "dxa", INT(24)),
     Cell(TRUE, FALSE, NONE, TRUE, "pct", INT(27)),
     Cell(TRUE, TRUE, INT(2), TRUE, UNSET, INT(52)),
     Cell(TRUE, TRUE, INT(2), TRUE, UNSET, INT(53))}

GridSnapshot == [tag |-> tag, kids |-> kids, attrs |-> attrs, events |-> events]

\* The nodes a cell adds to the tree: tc and what the variant puts below it.
CellSize(c) ==
    1 + (IF c.pr THEN 1 ELSE 0) + (IF c.hasSpan THEN 1 ELSE 0) + (IF c.hasW THEN 1 ELSE 0)
LastOf(s) == s[Len(s)]
CurRows == findall(tag, kids, cur, "tr")
CurGrid == find_child(tag, kids, cur, "tblGrid")

GridInit ==
    /\ op = "init"
    /\ tag = <<"tbl">> /\ kids = << <<>> >> /\ attrs = <<NoAttrs>>
    /\ cur = 1
    /\ pre = <<>> /\ ret = 0 /\ runs = 0 /\ events = <<>>
    /\ target = <<>> /\ orig = <<>>
    /\ profile = "" /\ OrderIdle /\ CheckIdle /\ PackIdle

\* A gridCol (and the tblGrid, if the table has none yet) added to the table
\* under construction, before its rows.
AddGridCol ==
    /\ op = "init"
    /\ Len(tag) + (IF CurGrid = 0 THEN 2 ELSE 1) <= MaxGridNodes
    /\ CurRows = <<>>
    /\ \E w \in GridColPool :
        LET n == Len(tag)
        IN IF CurGrid = 0
           THEN /\ tag' = tag \o <<"tblGrid", "gridCol">>
                /\ kids' = [kids EXCEPT ![cur] = Append(@, n + 1)]
                             \o << <<n + 2>>, <<>> >>
                /\ attrs' = attrs \o <<NoAttrs, [NoAttrs EXCEPT !.w = w]>>
           ELSE /\ tag' = Append(tag, "gridCol")
                /\ kids' = Append([kids EXCEPT ![CurGrid] = Append(@, n + 1)], <<>>)
                /\ attrs' = Append(attrs, [NoAttrs EXCEPT !.w = w])
    /\ UNCHANGED <<op, cur, pre, ret, runs, events, GridFrame>>

\* A tr added to the table under construction.
AddRow ==
    /\ op = "init"
    /\ Len(tag) < MaxGridNodes
    /\ CurRows # <<>> => kids[LastOf(CurRows)] # <<>>
    /\ tag' = Append(tag, "tr")
    /\ kids' = Append([kids EXCEPT ![cur] = Append(@, Len(tag) + 1)], <<>>)
    /\ attrs' = Append(attrs, NoAttrs)
    /\ UNCHANGED <<op, cur, pre, ret, runs, events, GridFrame>>

\* A tc, with its tcPr, gridSpan and tcW as the variant says, added to the
\* last row of the table under construction.
AddCell ==
    /\ op = "init"
    /\ CurRows # <<>>
    /\ \E c \in CellVariants :
        /\ Len(tag) + CellSize(c) <= MaxGridNodes
        /\ LET n == Len(tag)
               row == LastOf(CurRows)
               prTags == IF c.pr THEN <<"tcPr">> ELSE <<>>
               spTags == IF c.hasSpan THEN <<"gridSpan">> ELSE <<>>
               wTags == IF c.hasW THEN <<"tcW">> ELSE <<>>
               below == [i \in 1..(Len(spTags) + Len(wTags)) |-> n + 2 + i]
           IN /\ tag' = tag \o <<"tc">> \o prTags \o spTags \o wTags
              /\ kids' = [kids EXCEPT ![row] = Append(@, n + 1)]
                           \o << IF c.pr THEN <<n + 2>> ELSE <<>> >>
                           \o (IF c.pr THEN <<below>> ELSE <<>>)
                           \o [i \in 1..Len(below) |-> <<>>]
              /\ attrs' = attrs \o <<NoAttrs>>
                            \o (IF c.pr THEN <<NoAttrs>> ELSE <<>>)
                            \o (IF c.hasSpan THEN <<[NoAttrs EXCEPT !.val = c.span]>> ELSE <<>>)
                            \o (IF c.hasW THEN <<[NoAttrs EXCEPT !.w = c.w, !.type = c.unit]>>
                                ELSE <<>>)
    /\ UNCHANGED <<op, cur, pre, ret, runs, events, GridFrame>>

\* A tbl placed in the last cell of the root table; the construction goes on
\* inside it.
NestTable ==
    /\ op = "init"
    /\ cur = 1
    /\ Len(tag) < MaxGridNodes
    /\ CurRows # <<>> /\ kids[LastOf(CurRows)] # <<>>
    /\ LET cell == LastOf(kids[LastOf(CurRows)])
       IN /\ tag' = Append(tag, "tbl")
          /\ kids' = Append([kids EXCEPT ![cell] = Append(@, Len(tag) + 1)], <<>>)
          /\ attrs' = Append(attrs, NoAttrs)
          /\ cur' = Len(tag) + 1
    /\ UNCHANGED <<op, pre, ret, runs, events, GridFrame>>

AlignGrid ==
    /\ MayRun("align_grid")
    /\ \E r \in {align_grid(tag, kids, attrs, events, 1)} :
          /\ attrs' = r.attrs
          /\ events' = r.events
          /\ ret' = r.touched
    /\ pre' = GridSnapshot
    /\ op' = "align_grid"
    /\ runs' = NextRuns("align_grid")
    /\ UNCHANGED <<tag, kids, cur, GridFrame>>

GridNext == AddGridCol \/ AddRow \/ AddCell \/ NestTable \/ AlignGrid

SpecGrid == GridInit /\ [][GridNext]_vars

(***************************************************************************)
(* Claim C7 (grid-level).                                                  *)
(***************************************************************************)
Nodes == 1..Len(tag)
ParentOf(n) == CHOOSE q \in Nodes : n \in Range(kids[q])
IsNested(t) ==
    \E a \in Nodes :
        /\ tag[a] = "tbl" /\ a # t
        /\ \E c \in Nodes : tag[c] = "tc" /\ t \in Range(kids[c])
                            /\ ParentOf(ParentOf(c)) = a
\* The first child of n with the given tag, 0 if none.
FirstChild(n, name) ==
    IF n = 0 \/ ~\E i \in 1..Len(kids[n]) : tag[kids[n][i]] = name THEN 0
    ELSE kids[n][CHOOSE i \in 1..Len(kids[n]) :
                    /\ tag[kids[n][i]] = name
                    /\ \A j \in 1..(i - 1) : tag[kids[n][j]] # name]
\* The columns a cell spans: its positive integer gridSpan, else 1.
ClaimSpan(c) ==
    LET gs == FirstChild(FirstChild(c, "tcPr"), "gridSpan")
    IN IF gs # 0 /\ pre.attrs[gs].val.k = "int" /\ pre.attrs[gs].val.v > 0
       THEN pre.attrs[gs].val.v
       ELSE 1
\* The tc children of a row, in order, and the column a cell starts at.
RowCells(r) == SelectSeq(kids[r], LAMBDA c : tag[c] = "tc")
RECURSIVE SpanSum(_, _)
SpanSum(cells, upto) ==
    IF upto = 0 THEN 0 ELSE ClaimSpan(cells[upto]) + SpanSum(cells, upto - 1)
StartCol(c) ==
    LET cells == RowCells(ParentOf(c))
    IN SpanSum(cells, (CHOOSE i \in 1..Len(cells) : cells[i] = c) - 1)
\* The widths of the grid of a table, <<>> unless every gridCol parses.
GridOf(t) ==
    LET g == FirstChild(t, "tblGrid")
        cols == IF g = 0 THEN <<>> ELSE SelectSeq(kids[g], LAMBDA c : tag[c] = "gridCol")
    IN IF \A i \in 1..Len(cols) : pre.attrs[cols[i]].w.k = "int"
       THEN [i \in 1..Len(cols) |-> pre.attrs[cols[i]].w.v]
       ELSE <<>>
RECURSIVE ColSum(_, _, _)
ColSum(widths, from, howMany) ==
    IF howMany = 0 THEN 0 ELSE widths[from] + ColSum(widths, from + 1, howMany - 1)
\* The tcW of a cell the claim speaks of: in a row of a table that lies in no
\* other table, dxa or untyped, its w an integer, its span inside the grid and
\* the widths it spans summing to a positive number.
CellOf(x) == ParentOf(ParentOf(x))
TableOf(x) == ParentOf(ParentOf(CellOf(x)))
Expected(x) == ColSum(GridOf(TableOf(x)), StartCol(CellOf(x)) + 1, ClaimSpan(CellOf(x)))
Eligible(x) ==
    /\ tag[x] = "tcW"
    /\ ~IsNested(TableOf(x))
    /\ pre.attrs[x].type \in {UNSET, "", "dxa"}
    /\ pre.attrs[x].w.k = "int"
    /\ StartCol(CellOf(x)) + ClaimSpan(CellOf(x)) <= Len(GridOf(TableOf(x)))
    /\ Expected(x) > 0
Drift100(x) == 100 * Abs(pre.attrs[x].w.v - Expected(x))

\* C7: align_grid overwrites the width of an eligible cell (integer width,
\* positive expected width) exactly when 100 * |actual - expected| exceeds
\* 4 * expected: a cell exactly at the boundary keeps its width, a cell one
\* unit beyond it gets the expected width.
C7_DriftBoundary ==
    op = "align_grid" =>
        \A x \in Nodes : Eligible(x) =>
            /\ (attrs[x].w # pre.attrs[x].w) <=> (Drift100(x) > 4 * Expected(x))
            /\ Drift100(x) > 4 * Expected(x) => attrs[x].w = INT(Expected(x))
            /\ Drift100(x) = 4 * Expected(x) => attrs[x] = pre.attrs[x]
            /\ Drift100(x) - 100 = 4 * Expected(x) => attrs[x].w = INT(Expected(x))

\* A run on a row with one cell exactly at the boundary and one cell one unit
\* beyond it.
C7_Witness ==
    /\ op = "align_grid"
    /\ \E x, y \in Nodes :
        /\ Eligible(x) /\ Drift100(x) = 4 * Expected(x)
        /\ attrs[x] = pre.attrs[x]
        /\ Eligible(y) /\ Drift100(y) - 100 = 4 * Expected(y)
        /\ attrs[y].w = INT(Expected(y)) /\ attrs[y].w # pre.attrs[y].w

(***************************************************************************)
(* Detector-level runs: an unpacked package is written part by part, then  *)
(* the annotation-links detector scans it with an empty report.            *)
(***************************************************************************)
IdPool == {"5", "7"}
RawIds == IdPool \cup {"", UNSET}
NoComments == [state |-> "absent", ids |-> <<>>]

\* The orders in which a set of ids can be iterated.
RECURSIVE Orderings(_)
Orderings(S) ==
    IF S = {} THEN {<<>>}
    ELSE UNION {{<<x>> \o rest : rest \in Orderings(S \ {x})} : x \in S}

PipeIdle ==
    /\ detectors = <<>> /\ disabled = {} /\ docx = "" /\ scanned = <<>>
    /\ arg = "" /\ tmpdir = "" /\ context = <<>>
AnnotFrame == <<profile, orderVars, treeVars, gridVars,
                detectors, disabled, docx, scanned, arg, tmpdir, context, packVars>>

AnnotInit ==
    /\ op = "init"
    /\ mainPart = "ok" /\ refs = <<>> /\ comments = NoComments
    /\ issues = <<>> /\ raised = ""
    /\ PipeIdle /\ PackIdle
    /\ profile = "" /\ OrderIdle /\ TreeIdle /\ GridIdle

\* A commentRangeStart written into the main part, its w:id absent, empty or
\* a number.
WriteRangeStart ==
    /\ op = "init" /\ mainPart = "ok"
    /\ Len(refs) < MaxRefs
    /\ \E id \in RawIds : refs' = Append(refs, id)
    /\ UNCHANGED <<op, mainPart, comments, issues, raised, AnnotFrame>>

\* word/comments.xml created (without entries) or given one more comment.
WriteComment ==
    /\ op = "init" /\ comments.state # "malformed"
    /\ \/ comments.state = "absent" /\ comments' = [state |-> "ok", ids |-> <<>>]
       \/ /\ comments.state = "ok" /\ Len(comments.ids) < MaxComments
          /\ \E id \in RawIds : comments' = [comments EXCEPT !.ids = Append(@, id)]
    /\ UNCHANGED <<op, mainPart, refs, issues, raised, AnnotFrame>>

\* A part left as a file that is not well-formed XML, or the main part removed.
DamagePart ==
    /\ op = "init"
    /\ \/ /\ comments.state # "malformed"
          /\ comments' = [state |-> "malformed", ids |-> <<>>]
          /\ UNCHANGED <<mainPart, refs>>
       \/ /\ mainPart = "ok"
          /\ mainPart' \in {"missing", "malformed"}
          /\ refs' = <<>>
          /\ UNCHANGED comments
    /\ UNCHANGED <<op, issues, raised, AnnotFrame>>

AnnotationScan ==
    /\ op = "init"
    /\ \E order \in Orderings(IdPool) :
         \E out \in {annotation_scan(mainPart, refs, comments, issues, order)} :
            /\ issues' = out.issues
            /\ raised' = out.raised
    /\ op' = "annotation-links"
    /\ UNCHANGED <<mainPart, refs, comments, AnnotFrame>>

AnnotNext == WriteRangeStart \/ WriteComment \/ DamagePart \/ AnnotationScan

SpecAnnot == AnnotInit /\ [][AnnotNext]_vars

(***************************************************************************)
(* Claim C8 (detector-level).                                              *)
(***************************************************************************)
\* The ids referenced by the main part and the ids of the comment entries the
\* package holds (none when the comments part is absent or unreadable).
Referenced == {refs[i] : i \in 1..Len(refs)} \ {"", UNSET}
Defined == {comments.ids[i] : i \in 1..Len(comments.ids)} \ {"", UNSET}
BlockersFor(id) ==
    {i \in 1..Len(issues) :
        issues[i].gravity = BLOCKER /\ issues[i].location = "comment/" \o id}
OneBlockerPerOrphan ==
    /\ \A id \in Referenced \ Defined : Cardinality(BlockersFor(id)) = 1
    /\ Len(issues) = Cardinality(Referenced \ Defined)

PartPool ==
    {"[Content_Types].xml", "_rels/.rels", "word/_rels/document.xml.rels",
     "word/document.xml", "media/img1.png"}
Child(t, key, ct) == [tag |-> t, key |-> key, ct |-> ct]
ChildPool ==
    {Child("Default", "xml", "application/xml"),
     Child("Default", "xml", MAIN_DOCUMENT_CT),
     Child("Default", "rels", RELATIONSHIPS_CT),
     Child("Default", "PNG", "image/png"),
     Child("Default", "png", MAIN_DOCUMENT_CT),
     Child("Override", "/word/document.xml", MAIN_DOCUMENT_CT),
     Child("Override", "word/document.xml", "application/xml"),
     Child("Override", "/media/img1.png", CORE_PROPERTIES_CT),
     Child("Override", "/word/_rels/document.xml.rels", MAIN_DOCUMENT_CT)}
EmptyTypes == [ok |-> TRUE, children |-> <<>>]

PackFrame == <<profile, orderVars, treeVars, gridVars, checkVars>>

PackInit ==
    /\ op = "init"
    /\ files = {} /\ entries = EmptyTypes /\ archive = <<>>
    /\ CheckIdle
    /\ profile = "" /\ OrderIdle /\ TreeIdle /\ GridIdle

\* A file put into the package directory.
WriteFile ==
    /\ op = "init"
    /\ \E part \in PartPool \ files : files' = files \cup {part}
    /\ UNCHANGED <<op, entries, archive, PackFrame>>

\* A Default or Override child added to the manifest.
DeclareType ==
    /\ op = "init"
    /\ "[Content_Types].xml" \in files /\ entries.ok
    /\ Len(entries.children) < MaxEntries
    /\ \E child \in ChildPool : entries' = [entries EXCEPT !.children = Append(@, child)]
    /\ UNCHANGED <<op, files, archive, PackFrame>>

\* The manifest left as a file that is not well-formed XML.
DamageManifest ==
    /\ op = "init"
    /\ "[Content_Types].xml" \in files /\ entries.ok
    /\ entries' = [ok |-> FALSE, children |-> <<>>]
    /\ UNCHANGED <<op, files, archive, PackFrame>>

Repackage ==
    /\ op = "init"
    /\ \E all_files \in Orderings(files) : archive' = repackage(all_files, entries)
    /\ op' = "repackage"
    /\ UNCHANGED <<files, entries, PackFrame>>

PackNext == WriteFile \/ DeclareType \/ DamageManifest \/ Repackage

SpecPack == PackInit /\ [][PackNext]_vars

(***************************************************************************)
(* Claim C9 (packaging-level).                                             *)
(***************************************************************************)
ClaimedOrder ==
    <<"[Content_Types].xml", "word/_rels/document.xml.rels", "word/document.xml",
      "media/img1.png">>
\* The content type the manifest gives a part: its Override (the last one
\* for that part name, with or without a leading slash), else the last
\* Default for its extension in any letter case, else none.
ChildrenFor(part, ext) ==
    LET cs == entries.children
        over == {i \in 1..Len(cs) : cs[i].tag = "Override"
                                      /\ cs[i].key \in {part, "/" \o part}}
        dflt == {i \in 1..Len(cs) : cs[i].tag = "Default"
                                      /\ lower(CodePoints[cs[i].key]) = CodePoints[ext]}
    IN IF over # {} THEN over ELSE dflt
Resolves(part, ext, types) ==
    /\ entries.ok
    /\ ChildrenFor(part, ext) # {}
    /\ LET last == CHOOSE i \in ChildrenFor(part, ext) :
                      \A j \in ChildrenFor(part, ext) : j <= i
       IN entries.children[last].ct \in types

MediaTypes ==
    {ct \in DOMAIN CONTENT_TYPE_CATEGORIES : CONTENT_TYPE_CATEGORIES[ct] = "media"}

\* C9 as stated: whatever the order in which the four parts are listed,
\* repackage writes manifest, relationships, main document, media.
C9_ArchiveOrder ==
    op = "repackage" /\ files = Range(ClaimedOrder) => archive = ClaimedOrder

\* C9 as amended: the same, when the manifest declares word/document.xml with
\* the main-document content type and media/img1.png with one of the image
\* types the classifier files under media.
C9_ArchiveOrderDeclared ==
    /\ op = "repackage" /\ files = Range(ClaimedOrder)
    /\ Resolves("word/document.xml", "xml", {MAIN_DOCUMENT_CT})
    /\ Resolves("media/img1.png", "png", MediaTypes)
    => archive = ClaimedOrder

\* A repackaging of the four parts under such a manifest.
C9_Witness ==
    /\ op = "repackage" /\ files = Range(ClaimedOrder)
    /\ Resolves("word/document.xml", "xml", {MAIN_DOCUMENT_CT})
    /\ Resolves("media/img1.png", "png", MediaTypes)
    /\ archive = ClaimedOrder

(***************************************************************************)
(* Pipeline-level runs: detectors are registered, disabled and re-enabled, *)
(* and the pipeline is run on a file.                                      *)
(***************************************************************************)
DetectorNames == {"a", "b"}
Finding(name) == Issue(BLOCKER, "found/" \o name, "finding")
\* Detectors of one's own (they do not read the main part) in every
\* combination of appending a finding and raising, and detectors that start
\* by reading ctx.document_root, as the built-in ones do.
DetectorPool ==
    UNION {{Detector(n, FALSE, em, ex) :
                em \in {<<>>, <<Finding(n)>>},
                ex \in {NoExc, Exc("ValueError", "bad value")}}
           \cup {Detector(n, TRUE, <<Finding(n)>>, NoExc)} : n \in DetectorNames}
\* The file at docx_path: absent, not a zip, not openable, a package, a
\* package without word/document.xml.
DocxStates == {"missing", "badzip", "unreadable", "ok", "nomain"}

ScanIdle == mainPart = "" /\ refs = <<>> /\ comments = <<>> /\ context = <<>>
PipeFrame == <<profile, orderVars, treeVars, gridVars, mainPart, refs, comments, context,
               packVars>>
NoResult ==
    issues' = <<>> /\ raised' = "" /\ scanned' = <<>> /\ docx' = "" /\ tmpdir' = ""

PipeInit ==
    /\ op = "init"
    /\ detectors = <<>> /\ disabled = {}
    /\ docx = "" /\ scanned = <<>> /\ issues = <<>> /\ raised = ""
    /\ arg = "" /\ tmpdir = ""
    /\ ScanIdle /\ PackIdle
    /\ profile = "" /\ OrderIdle /\ TreeIdle /\ GridIdle

Add ==
    /\ Len(detectors) < MaxDetectors
    /\ \E detector \in DetectorPool : detectors' = Append(detectors, detector)
    /\ op' = "add" /\ arg' = "" /\ NoResult
    /\ UNCHANGED <<disabled, PipeFrame>>

Skip ==
    /\ \E name \in DetectorNames : disabled' = disabled \cup {name} /\ arg' = name
    /\ op' = "skip" /\ NoResult
    /\ UNCHANGED <<detectors, PipeFrame>>

Enable ==
    /\ \E name \in DetectorNames : disabled' = disabled \ {name} /\ arg' = name
    /\ op' = "enable" /\ NoResult
    /\ UNCHANGED <<detectors, PipeFrame>>

Run ==
    /\ \E file \in DocxStates :
         \E out \in {run(file, detectors, disabled)} :
            /\ docx' = file
            /\ issues' = out.issues
            /\ scanned' = out.scanned
            /\ raised' = out.raised
            /\ tmpdir' = out.tmpdir
    /\ op' = "run" /\ arg' = ""
    /\ UNCHANGED <<detectors, disabled, PipeFrame>>

PipeNext == Add \/ Skip \/ Enable \/ Run

SpecPipe == PipeInit /\ [][PipeNext]_vars

(***************************************************************************)
(* Claim C10 (pipeline-level).                                             *)
(***************************************************************************)
EnabledAt == {i \in 1..Len(detectors) : detectors[i].name \notin disabled}
FaultsOf(name, exc) ==
    {i \in EnabledAt : detectors[i].name = name /\ detectors[i].raises = exc}
FaultWarnings(name, exc) ==
    {k \in 1..Len(issues) :
        /\ issues[k].gravity = WARNING
        /\ issues[k].location = "detector/" \o name
        /\ issues[k].summary = "Detector failed: " \o exc.type \o ": " \o exc.msg}
IsFinding(k) == \E n \in DetectorNames : issues[k] = Finding(n)
\* What the enabled detectors appended themselves, in registration order.
RECURSIVE EmittedFrom(_)
EmittedFrom(i) ==
    IF i > Len(detectors) THEN <<>>
    ELSE (IF i \in EnabledAt THEN detectors[i].emits ELSE <<>>) \o EmittedFrom(i + 1)
RECURSIVE FindingsFrom(_)
FindingsFrom(k) ==
    IF k > Len(issues) THEN <<>>
    ELSE (IF IsFinding(k) THEN <<issues[k]>> ELSE <<>>) \o FindingsFrom(k + 1)

\* C10: when run reaches the detectors, a failing detector costs nothing but
\* one WARNING that names it and its exception: every issue the enabled
\* detectors appended is in the report, every enabled detector was scanned
\* (those registered after a failing one too), and run lets no exception out.
C10_DetectorIsolation ==
    op = "run" /\ docx = "ok" =>
        /\ raised = ""
        /\ scanned = [k \in 1..Cardinality(EnabledAt) |->
                        detectors[CHOOSE i \in EnabledAt :
                            Cardinality({j \in EnabledAt : j <= i}) = k].name]
        /\ \A n \in DetectorNames : \A d \in DetectorPool :
              d.raises # NoExc =>
                  Cardinality(FaultWarnings(n, d.raises)) = Cardinality(FaultsOf(n, d.raises))
        /\ FindingsFrom(1) = EmittedFrom(1)
        /\ Len(issues) = Len(EmittedFrom(1))
                           + Cardinality({i \in EnabledAt : detectors[i].raises # NoExc})

\* A run in which the second of three enabled detectors appends an issue and
\* then fails, between two detectors that each append one.
C10_Witness ==
    /\ op = "run" /\ docx = "ok" /\ raised = ""
    /\ Len(detectors) = 3 /\ EnabledAt = {1, 2, 3}
    /\ detectors[1].raises = NoExc /\ detectors[3].raises = NoExc
    /\ detectors[2].raises # NoExc /\ detectors[2].emits # <<>>
    /\ detectors[1].emits # <<>> /\ detectors[3].emits # <<>>
    /\ Len(issues) = 4
    /\ issues[3].gravity = WARNING
    /\ issues[3].location = "detector/" \o detectors[2].name
    /\ scanned = <<detectors[1].name, detectors[2].name, detectors[3].name>>

(***************************************************************************)
(* Claims C11 to C15 (pipeline-level).                                     *)
(***************************************************************************)
\* The names of the enabled detectors, in registration order.
RECURSIVE EnabledNamesFrom(_)
EnabledNamesFrom(i) ==
    IF i > Len(detectors) THEN <<>>
    ELSE (IF detectors[i].name \in disabled THEN <<>> ELSE <<detectors[i].name>>)
            \o EnabledNamesFrom(i + 1)

\* C11: run on a valid zip without word/document.xml returns a report with a
\* single BLOCKER and scans with no detector.
C11_MissingMainPart ==
    op = "run" /\ docx = "nomain" =>
        /\ Len(issues) = 1 /\ issues[1].gravity = BLOCKER
        /\ scanned = <<>>

\* C12: run on a file that is not a zip archive returns a report whose only
\* issue is a BLOCKER at "archive" and scans with no detector, whatever is
\* registered and disabled.
C12_InvalidZip ==
    op = "run" /\ docx = "badzip" =>
        /\ raised = ""
        /\ Len(issues) = 1
        /\ issues[1].gravity = BLOCKER /\ issues[1].location = "archive"
        /\ scanned = <<>>

\* A run on such a file with an enabled and a disabled detector registered.
C12_Witness ==
    /\ op = "run" /\ docx = "badzip"
    /\ EnabledAt # {} /\ EnabledAt # 1..Len(detectors)
    /\ Len(issues) = 1 /\ issues[1].location = "archive"

\* C13: run ends by returning a report, never by raising, whatever the file.
C13_AlwaysReport ==
    op = "run" => raised = ""

\* C14: run on a valid package scans with the registered detectors whose name
\* is not disabled, once per registration and in registration order; skip
\* and enable put the name in and take it out of the disabled set and leave
\* the registrations alone, and add appends to them.
C14_EnabledInOrder ==
    [][/\ op' = "run" /\ docx' \in {"ok", "nomain"} => scanned' = EnabledNamesFrom(1)'
       /\ op' = "skip" => arg' \in disabled' /\ detectors' = detectors
       /\ op' = "enable" => arg' \notin disabled' /\ detectors' = detectors
       /\ op' \in {"skip", "enable"} => disabled' \ {arg'} = disabled \ {arg'}
       /\ op' = "add" => /\ Len(detectors') = Len(detectors) + 1
                         /\ SubSeq(detectors', 1, Len(detectors)) = detectors
                         /\ disabled' = disabled
       /\ op' = "run" => detectors' = detectors /\ disabled' = disabled]_vars

\* A run on a valid package with a detector registered twice and enabled and
\* another one disabled between the two registrations.
C14_Witness ==
    /\ op = "run" /\ docx = "ok"
    /\ Len(detectors) = 3
    /\ detectors[1].name = detectors[3].name /\ detectors[2].name # detectors[1].name
    /\ disabled = {detectors[2].name}
    /\ scanned = <<detectors[1].name, detectors[3].name>>

\* C15: once run has made its temporary directory, the directory is gone
\* when run returns or raises.
C15_ScopedExtraction ==
    op = "run" => tmpdir = IF docx = "missing" THEN "" ELSE "removed"

\* A run that ends with an exception raised while the archive is opened.
C15_Witness ==
    op = "run" /\ docx = "unreadable" /\ raised # "" /\ tmpdir = "removed"

(***************************************************************************)
(* Claims C16 and C17 (packaging-level).                                   *)
(***************************************************************************)
\* The manifest repackage reads: that of [Content_Types].xml if the package
\* has the file.
PackManifest ==
    IF "[Content_Types].xml" \in files THEN manifest_parse(entries) ELSE EmptyManifest
ClaimPriority ==
    <<"manifest", "relationships", "metadata", "main_document", "definitions",
      "theming", "page_layout", "annotations", "media", "unknown">>
Priority(part) == FirstIndex(ClaimPriority, classify(PackManifest, part))
IsRels(part) == Priority(part) = 2
Separators(part) ==
    Cardinality({i \in 1..Len(CodePoints[part]) : CodePoints[part][i] = Slash})
\* The order the claim describes: category priority, then (relationship parts)
\* the number of separators, then the path.
Before(p, q) ==
    \/ Priority(p) < Priority(q)
    \/ /\ Priority(p) = Priority(q)
       /\ IF IsRels(p) /\ Separators(p) # Separators(q)
          THEN Separators(p) < Separators(q)
          ELSE str_less(CodePoints[p], CodePoints[q])

\* C16: the keys of sort_key order the parts of a package strictly and
\* totally, by category priority, then (relationship parts only) by the
\* number of path separators, then by path; parts other than relationships
\* have depth 0; the archive lists every part once in that order, whatever
\* the order in which the files were found.
C16_SortKeyOrder ==
    op = "repackage" =>
        /\ \A i \in 1..(Len(ClaimPriority) - 1) :
              CATEGORY_ORDER[ClaimPriority[i]] < CATEGORY_ORDER[ClaimPriority[i + 1]]
        /\ \A p \in files :
              /\ Priority(p) # 0
              /\ ~IsRels(p) => sort_key(PackManifest, p)[2] = 0
        /\ \A p, q \in files :
              /\ part_key_less(sort_key(PackManifest, p), sort_key(PackManifest, q))
                    <=> (p # q /\ Before(p, q))
              /\ p # q => (Before(p, q) <=> ~Before(q, p))
        /\ Len(archive) = Cardinality(files)
        /\ Range(archive) = files
        /\ \A i, j \in 1..Len(archive) : i < j => Before(archive[i], archive[j])

\* A repackaging of all five parts: the root relationships come before the
\* nested ones.
C16_Witness ==
    /\ op = "repackage" /\ files = PartPool
    /\ archive[2] = "_rels/.rels" /\ archive[3] = "word/_rels/document.xml.rels"
    /\ entries.children # <<>>

\* The extension of each part of the pool.
ClaimExt ==
    [part \in PartPool |->
        CASE part = "media/img1.png" -> "png"
          [] part = "_rels/.rels" -> ""
          [] part = "word/_rels/document.xml.rels" -> "rels"
          [] OTHER -> "xml"]
\* The content type the manifest declares for a part: the exact-path
\* override, else the extension default, else application/octet-stream.
DeclaredType(part) ==
    IF ~entries.ok \/ ChildrenFor(part, ClaimExt[part]) = {} THEN OCTET_STREAM
    ELSE entries.children[CHOOSE i \in ChildrenFor(part, ClaimExt[part]) :
                             \A j \in ChildrenFor(part, ClaimExt[part]) : j <= i].ct
ClaimCategory(part) ==
    IF part = "[Content_Types].xml" THEN "manifest"
    ELSE IF part \in {"_rels/.rels", "word/_rels/document.xml.rels"} THEN "relationships"
    ELSE IF DeclaredType(part) \in DOMAIN CONTENT_TYPE_CATEGORIES
    THEN CONTENT_TYPE_CATEGORIES[DeclaredType(part)]
    ELSE "unknown"

RECURSIVE AncestorsOf(_)
AncestorsOf(n) ==
    IF \E q \in Nodes : n \in Range(kids[q])
    THEN {ParentOf(n)} \cup AncestorsOf(ParentOf(n))
    ELSE {}
TablesAbove(n) == {t \in AncestorsOf(n) \cup {n} : tag[t] = "tbl"}
InNestedTable(n) == Cardinality(TablesAbove(n)) >= 2
Rewritten == {x \in Nodes : attrs[x] # pre.attrs[x]}
Appended == SubSeq(events, Len(pre.events) + 1, Len(events))

\* C19: align_grid leaves every node of a table that lies inside another
\* table as it was, and records no event for it: the events appended are as
\* many as the cells rewritten, none of which is in a nested table.
C19_NestedTablesUntouched ==
    op = "align_grid" =>
        /\ \A x \in Nodes : InNestedTable(x) => attrs[x] = pre.attrs[x]
        /\ Len(events) - Len(pre.events)
              = Cardinality({x \in Rewritten : ~InNestedTable(x)})

\* A run on a tree whose nested table has a cell more than 4% off the grid
\* of that table.
C19_Witness ==
    /\ op = "align_grid"
    /\ \E x \in Nodes :
        /\ tag[x] = "tcW" /\ InNestedTable(x)
        /\ pre.attrs[x].w.k = "int" /\ pre.attrs[x].type = UNSET
        /\ Len(GridOf(TableOf(x))) = 1
        /\ Drift100(x) > 4 * Expected(x)
        /\ attrs[x] = pre.attrs[x]

\* C20: after align_grid every eligible cell (table not nested, grid
\* parseable, unit dxa or unspecified, integer width, span within the grid,
\* positive expected width, the cursor advanced by the spans of the cells to
\* its left) is within 4% of its expected width; the return value counts the
\* cells rewritten and the align-grid events appended; nothing else changes.
C20_WidthReconciliation ==
    op = "align_grid" =>
        /\ \A x \in Nodes : Eligible(x) =>
              /\ attrs[x].w.k = "int"
              /\ 25 * Abs(attrs[x].w.v - Expected(x)) <= Expected(x)
        /\ ret = Cardinality(Rewritten)
        /\ Len(events) = Len(pre.events) + ret
        /\ SubSeq(events, 1, Len(pre.events)) = pre.events
        /\ \A i \in 1..Len(Appended) : Appended[i].action = "align-grid"
        /\ tag = pre.tag /\ kids = pre.kids
        /\ \A x \in Rewritten :
              /\ Eligible(x)
              /\ attrs[x] = [pre.attrs[x] EXCEPT !.w = INT(Expected(x))]

\* A run on a row whose first cell has no tcPr and whose second cell is off
\* the second column of the grid: the second cell gets that column's width.
C20_Witness ==
    /\ op = "align_grid" /\ ret = 1
    /\ \E r \in Nodes :
        /\ tag[r] = "tr" /\ Len(RowCells(r)) = 2
        /\ FirstChild(RowCells(r)[1], "tcPr") = 0
        /\ \E x \in Rewritten :
            /\ CellOf(x) = RowCells(r)[2]
            /\ GridOf(TableOf(x)) = <<25, 50>>
            /\ attrs[x].w = INT(50)

(***************************************************************************)
(* Fixer-level runs: one DocumentFixer, one document, fix_all and           *)
(* align_grid called on its root in any sequence.                          *)
(***************************************************************************)
\* The documents drawn: body > (sectPr, p > pPr > two leaves, tbl > (tblGrid >
\* two gridCol of 25, tr > tc > tcPr > (gridSpan 2, tcW)), bookmarkStart), with
\* the children of body, tbl and tcPr in either order, the leaves of pPr loose
\* borders or registered properties, and the width of the cell on or off the
\* grid.  bookmarkStart is a MAY child of body: the minimal and repair
\* profiles do not register it.
FixerDoc(bodyKids, leaves, tblKids, prKids, w) ==
    [tag |-> <<"body", "sectPr", "p", "pPr">> \o leaves
               \o <<"tbl", "tblGrid", "gridCol", "gridCol", "tr", "tc", "tcPr",
                    "gridSpan", "tcW", "bookmarkStart">>,
     kids |-> <<bodyKids, <<>>, <<4>>, <<5, 6>>, <<>>, <<>>, tblKids, <<9, 10>>,
                <<>>, <<>>, <<12>>, <<13>>, prKids, <<>>, <<>>, <<>> >>,
     attrs |-> [i \in 1..16 |->
                  CASE i \in {9, 10} -> [NoAttrs EXCEPT !.w = INT(25)]
                    [] i = 14 -> [NoAttrs EXCEPT !.val = INT(2)]
                    [] i = 15 -> [NoAttrs EXCEPT !.w = w]
                    [] OTHER -> NoAttrs]]
FixerDocs ==
    {FixerDoc(b, l, t, c, w) :
        b \in {<<2, 3, 7, 16>>, <<3, 7, 16, 2>>},
        l \in {<<"left", "top">>, <<"jc", "pStyle">>, <<"pStyle", "jc">>},
        t \in {<<8, 11>>, <<11, 8>>},
        c \in {<<14, 15>>, <<15, 14>>},
        w \in {INT(50), INT(53)}}

FixerFrame == <<profile, cur, orderVars, target, orig, checkVars, packVars>>

\* create_default_fixer(profile), and the document handed to it.
FixerInit ==
    /\ op = "init"
    /\ profile \in Profiles
    /\ \E d \in FixerDocs : tag = d.tag /\ kids = d.kids /\ attrs = d.attrs
    /\ cur = 1
    /\ pre = <<>> /\ ret = 0 /\ runs = 0 /\ events = <<>>
    /\ target = <<>> /\ orig = Snapshot
    /\ OrderIdle /\ CheckIdle /\ PackIdle

\* fixer.fix_all(root); an element the run creates has no attributes.
FixerFixAll ==
    /\ MayRun("fix_all")
    /\ \E st \in {fix_all(tag, kids, events, 1, profile)} :
          /\ tag' = st.tag
          /\ kids' = st.kids
          /\ attrs' = attrs \o [i \in 1..(Len(st.tag) - Len(tag)) |-> NoAttrs]
          /\ events' = st.events
          /\ ret' = st.changes
    /\ pre' = GridSnapshot
    /\ op' = "fix_all"
    /\ runs' = NextRuns("fix_all")
    /\ UNCHANGED FixerFrame

\* fixer.align_grid(root)
FixerAlignGrid ==
    /\ MayRun("align_grid")
    /\ \E r \in {align_grid(tag, kids, attrs, events, 1)} :
          /\ attrs' = r.attrs
          /\ events' = r.events
          /\ ret' = r.touched
    /\ pre' = GridSnapshot
    /\ op' = "align_grid"
    /\ runs' = NextRuns("align_grid")
    /\ UNCHANGED <<tag, kids, FixerFrame>>

FixerNext == FixerFixAll \/ FixerAlignGrid

SpecFixer == FixerInit /\ [][FixerNext]_vars

(***************************************************************************)
(* Claim C18 (fixer-level).                                                *)
(***************************************************************************)
FixAllActions == {"wrap-border-group", "reorder-children", "body-tail-normalize"}
RECURSIVE TouchedSum(_)
TouchedSum(evs) == IF evs = <<>> THEN 0 ELSE Head(evs).touched + TouchedSum(Tail(evs))

\* C18: whatever calls came before, the trace after a fix_all holds the
\* events of that run alone (they are fix_all's kinds of event and account
\* for exactly the mutations the run returns), and the trace after an
\* align_grid is the trace before it followed by the align-grid events of
\* that run, one per cell rewritten: the trace is what was recorded since the
\* start of the last fix_all, in order.
C18_EventLifecycle ==
    /\ op = "fix_all" =>
          /\ \A i \in 1..Len(events) : events[i].action \in FixAllActions
          /\ TouchedSum(events) = ret
    /\ op = "align_grid" =>
          /\ Len(events) = Len(pre.events) + ret
          /\ SubSeq(events, 1, Len(pre.events)) = pre.events
          /\ \A i \in (Len(pre.events) + 1)..Len(events) :
                events[i].action = "align-grid"

\* A fix_all that records repairs on a fixer whose trace held the events of
\* an earlier fix_all followed by an align-grid event.
C18_Witness ==
    /\ op = "fix_all" /\ events # <<>>
    /\ \E i, j \in 1..Len(pre.events) :
          /\ i < j
          /\ pre.events[i].action \in FixAllActions
          /\ pre.events[j].action = "align-grid"

(***************************************************************************)
(* Table-level runs: a document with a malformed table and a nested table, *)
(* the fixer's align_grid and the grid-consistency detector run on its     *)
(* root in any sequence.                                                   *)
(***************************************************************************)
\* The documents drawn: body > tbl > (tblGrid > (gridCol g, gridCol 25),
\* tr > (tc > tcPr > (gridSpan sp, tcW w1 of unit u1),
\*       tc > (tcPr > tcW w2,
\*             tbl > (tblGrid > gridCol 25, tr > tc > tcPr > tcW w3)))).
ScanDoc(g, sp, w1, u1, w2, w3) ==
    [tag |-> <<"body", "tbl", "tblGrid", "gridCol", "gridCol", "tr", "tc", "tcPr",
               "gridSpan", "tcW", "tc", "tcPr", "tcW", "tbl", "tblGrid", "gridCol",
               "tr", "tc", "tcPr", "tcW">>,
     kids |-> << <<2>>, <<3, 6>>, <<4, 5>>, <<>>, <<>>, <<7, 11>>, <<8>>, <<9, 10>>,
                 <<>>, <<>>, <<12, 14>>, <<13>>, <<>>, <<15, 17>>, <<16>>, <<>>,
                 <<18>>, <<19>>, <<20>>, <<>> >>,
     attrs |-> [i \in 1..20 |->
                  CASE i = 4 -> [NoAttrs EXCEPT !.w = g]
                    [] i \in {5, 16} -> [NoAttrs EXCEPT !.w = INT(25)]
                    [] i = 9 -> [NoAttrs EXCEPT !.val = sp]
                    [] i = 10 -> [NoAttrs EXCEPT !.w = w1, !.type = u1]
                    [] i = 13 -> [NoAttrs EXCEPT !.w = w2]
                    [] i = 20 -> [NoAttrs EXCEPT !.w = w3]
                    [] OTHER -> NoAttrs]]
ScanDocs ==
    {ScanDoc(g, sp, w1, u1, w2, w3) :
        g \in {INT(25), INT(0), INT(-25), TEXT, EMPTY, NONE},
        sp \in {NONE, INT(2), INT(0), INT(-1), TEXT},
        w1 \in {INT(27), INT(28), INT(54), INT(55), INT(0), INT(-5), TEXT, EMPTY, NONE},
        u1 \in {UNSET, "", "dxa", "pct"},
        w2 \in {INT(25), INT(28)},
        w3 \in {INT(25), INT(28)}}

ScanSnapshot ==
    [tag |-> tag, kids |-> kids, attrs |-> attrs, events |-> events,
     issues |-> issues, op |-> op]
ScanFrame == <<profile, cur, orderVars, target, orig, mainPart, refs, comments,
               detectors, disabled, docx, scanned, arg, tmpdir, context, packVars>>

ScanInit ==
    /\ op = "init"
    /\ \E d \in ScanDocs : tag = d.tag /\ kids = d.kids /\ attrs = d.attrs
    /\ cur = 1
    /\ pre = <<>> /\ ret = 0 /\ runs = 0 /\ events = <<>>
    /\ target = <<>> /\ orig = <<>>
    /\ profile = "" /\ OrderIdle /\ CheckIdle /\ PackIdle

\* fixer.align_grid(root)
ScanAlignGrid ==
    /\ MayRun("align_grid")
    /\ \E r \in {align_grid(tag, kids, attrs, events, 1)} :
          /\ attrs' = r.attrs
          /\ events' = r.events
          /\ ret' = r.touched
          /\ raised' = r.raised
    /\ pre' = ScanSnapshot
    /\ op' = "align_grid"
    /\ runs' = NextRuns("align_grid")
    /\ UNCHANGED <<tag, kids, issues, ScanFrame>>

\* GridConsistencyDetector().scan(ctx) with a fresh report.
GridScan ==
    /\ MayRun("scan")
    /\ issues' = grid_scan(tag, kids, attrs, <<>>, 1)
    /\ raised' = ""
    /\ ret' = 0
    /\ pre' = ScanSnapshot
    /\ op' = "scan"
    /\ runs' = NextRuns("scan")
    /\ UNCHANGED <<tag, kids, attrs, events, ScanFrame>>

ScanNext == ScanAlignGrid \/ GridScan

SpecScan == ScanInit /\ [][ScanNext]_vars

(***************************************************************************)
(* Claim C21 (table-level).                                                *)
(***************************************************************************)
\* C21: align_grid lets no exception out whatever the gridCol widths,
\* gridSpan values and tcW widths are (missing, empty, not an integer, zero,
\* negative); a cell whose width does not parse or whose unit is given and
\* not dxa keeps its attributes; and the cursor passes every cell by its span,
\* 1 for a span that is not a positive integer: each cell that starts at the
\* column so computed and is eligible ends within 4% of the widths it spans,
\* and no other cell is rewritten.
C21_MalformedAttributes ==
    op = "align_grid" =>
        /\ raised = ""
        /\ \A x \in Nodes :
              tag[x] = "tcW" /\ (pre.attrs[x].w.k # "int"
                                 \/ pre.attrs[x].type \notin {UNSET, "", "dxa"})
                 => attrs[x] = pre.attrs[x]
        /\ \A x \in Nodes : Eligible(x) =>
              25 * Abs(attrs[x].w.v - Expected(x)) <= Expected(x)
        /\ \A x \in Rewritten : Eligible(x)

\* A run on a row whose first cell has a gridSpan that is no positive integer
\* and a width that does not parse, and whose second cell is off the second
\* column: the first cell is as it was, the second has the second column's
\* width.
C21_Witness ==
    /\ op = "align_grid" /\ raised = ""
    /\ pre.attrs[9].val \in {TEXT, INT(0), INT(-1)}
    /\ pre.attrs[10].w \in {TEXT, EMPTY}
    /\ attrs[10] = pre.attrs[10]
    /\ pre.attrs[13].w = INT(28) /\ attrs[13].w = INT(25)

(***************************************************************************)
(* Claims C22, C29 (table-level).                                          *)
(***************************************************************************)
\* The cells align_grid would rewrite were its tolerance 8%.
OverTolerance(x) == 25 * Abs(pre.attrs[x].w.v - Expected(x)) > 2 * Expected(x)
Offending == {x \in Nodes : Eligible(x) /\ OverTolerance(x)}
DriftSummary(x) ==
    "Cell width " \o ToString(pre.attrs[x].w.v) \o " deviates from grid sum "
       \o ToString(Expected(x))

\* C22: the grid-consistency detector reports exactly the cells align_grid
\* would rewrite with a tolerance of 8%, one WARNING for each.
C22_SameCheckAsRepair ==
    op = "scan" =>
        /\ Len(issues) = Cardinality(Offending)
        /\ \A i \in 1..Len(issues) :
              /\ issues[i].gravity = WARNING
              /\ \E x \in Offending : issues[i].summary = DriftSummary(x)
        /\ \A x \in Offending :
              \E i \in 1..Len(issues) : issues[i].summary = DriftSummary(x)

\* C29: a scan that follows align_grid on the same tree reports nothing.
C29_RepairThenValidate ==
    op = "scan" /\ pre.op = "align_grid" => issues = <<>>

(***************************************************************************)
(* Claim C30 (grid-level).                                                 *)
(***************************************************************************)
\* C30: an align_grid that follows an align_grid returns 0, changes no
\* attribute and appends no event; every cell an align_grid rewrites has its
\* expected width afterwards, and no gridCol is ever changed.
C30_AlignGridIdempotent ==
    op = "align_grid" =>
        /\ \A x \in Rewritten : attrs[x].w = INT(Expected(x))
        /\ \A x \in Nodes : tag[x] = "gridCol" => attrs[x] = pre.attrs[x]
        /\ runs >= 2 => ret = 0 /\ attrs = pre.attrs /\ events = pre.events

\* A second align_grid on a tree in which the first rewrote a cell that
\* spans two columns.
C30_Witness ==
    /\ op = "align_grid" /\ runs = 2 /\ ret = 0
    /\ \E i \in 1..Len(events) : events[i].detail = <<53, 50>>
    /\ attrs = pre.attrs

(***************************************************************************)
(* Paragraph-level runs: wrap_border_group called directly on one pPr      *)
(* (node 1) whose children are nodes 2..n+1.                               *)
(***************************************************************************)
\* The child tags drawn: pStyle (ranked before pBdr), jc (after), keepNext
\* (after; unregistered under minimal), pBdr, the loose leaves top and left,
\* and x (never registered).
WrapTagPool == {"pStyle", "jc", "keepNext", "pBdr", "top", "left", "x"}

WrapInit ==
    /\ op = "init"
    /\ \E n \in 0..MaxKids :
        \E tags \in [2..(n + 1) -> WrapTagPool] :
            /\ tag = [i \in 1..(n + 1) |-> IF i = 1 THEN "pPr" ELSE tags[i]]
            /\ kids = [i \in 1..(n + 1) |->
                         IF i = 1 THEN [k \in 1..n |-> k + 1] ELSE <<>>]
    /\ profile \in Profiles
    /\ target = <<>> /\ pre = <<>>
    /\ ret = 0 /\ runs = 0 /\ events = <<>> /\ orig = <<>>
    /\ OrderIdle /\ GridIdle /\ CheckIdle /\ PackIdle

\* fixer.wrap_border_group(ppr)
WrapBorderGroup ==
    /\ MayRun("wrap_border_group")
    /\ \E w \in {wrap_border_group([tag |-> tag, kids |-> kids,
                                    events |-> events, changes |-> 0], 1, profile)} :
          /\ tag' = w.st.tag
          /\ kids' = w.st.kids
          /\ ret' = w.moved
    /\ pre' = Snapshot
    /\ op' = "wrap_border_group"
    /\ runs' = NextRuns("wrap_border_group")
    /\ UNCHANGED <<target, events, orig, TreeFrame>>

WrapNext == WrapBorderGroup

SpecWrap == WrapInit /\ [][WrapNext]_vars

(***************************************************************************)
(* Claim C23 (paragraph-level).                                            *)
(***************************************************************************)
\* The rank of a tag among the children of pPr: its place in the pPr
\* sequence of the profile, beyond every place of the sequence if it has none.
PprSequence == get_child_order("pPr", profile)
ClaimRank(t) ==
    IF t \in Range(PprSequence) THEN FirstIndex(PprSequence, t)
    ELSE Len(PprSequence) + 1
\* How many children stand before the first one ranked after pBdr.
RECURSIVE SlotIndex(_)
SlotIndex(children) ==
    IF children = <<>> \/ ClaimRank(pre.tag[Head(children)]) > ClaimRank("pBdr")
    THEN 0
    ELSE 1 + SlotIndex(Tail(children))
NotLoose(children) ==
    SelectSeq(children, LAMBDA c : pre.tag[c] \notin BORDER_LEAVES)
HadLoose == \E c \in Range(pre.kids[1]) : pre.tag[c] \in BORDER_LEAVES
HadGroup == \E c \in Range(pre.kids[1]) : pre.tag[c] = "pBdr"

\* C23: wrap_border_group on a pPr with loose leaves and no pBdr puts the new
\* pBdr right before the first child ranked after pBdr (a child whose tag is
\* not in the pPr sequence, a loose leaf included, ranks after every tag of
\* the sequence), at the end if there is none; with a pBdr present it creates
\* none and leaves the one it finds where it is.
C23_GroupSlot ==
    op = "wrap_border_group" /\ HadLoose =>
        LET before == pre.kids[1]
            fresh == Len(pre.tag) + 1
            k == SlotIndex(before)
        IN IF HadGroup
           THEN Len(tag) = Len(pre.tag) /\ kids[1] = NotLoose(before)
           ELSE /\ Len(tag) = fresh /\ tag[fresh] = "pBdr"
                /\ kids[1] = NotLoose(SubSeq(before, 1, k)) \o <<fresh>>
                               \o NotLoose(SubSeq(before, k + 1, Len(before)))

\* A pPr (pStyle, x, jc, top): the new pBdr stands between pStyle and x.
C23_Witness ==
    /\ op = "wrap_border_group" /\ runs = 1
    /\ Len(pre.kids[1]) = 4
    /\ [i \in 1..4 |-> pre.tag[pre.kids[1][i]]] = <<"pStyle", "x", "jc", "top">>
    /\ [i \in 1..Len(kids[1]) |-> tag[kids[1][i]]] = <<"pStyle", "pBdr", "x", "jc">>

(***************************************************************************)
(* Context-level runs: one ScanContext, as run builds it, read by the      *)
(* detectors of the run one after the other.                               *)
(***************************************************************************)
\* What a scan reads of the context, in order.  The built-in detectors read
\* document_root first; hyperlink-validity then reads relationships for a
\* hyperlink with an r:id; aspect-ratio reads relationships twice and then
\* parent_map for a blip with a resolved r:embed.  The others are detectors
\* written against the Detector protocol.
AccessPatterns ==
    [ bookmark_integrity |-> <<"document_root">>,
      hyperlink_validity |-> <<"document_root", "relationships">>,
      aspect_ratio |-> <<"document_root", "relationships", "relationships",
                         "parent_map">>,
      reads_parent_map |-> <<"parent_map">>,
      reads_relationships |-> <<"relationships">>,
      reads_nothing |-> <<>> ]

CacheFrame == <<profile, orderVars, treeVars, gridVars, mainPart, refs, comments,
                issues, detectors, disabled, docx, arg, tmpdir, packVars>>

\* ctx = ScanContext(extract_dir, report) (pipeline.py, line 70)
CacheInit ==
    /\ op = "init"
    /\ \E main \in PartStates, rels \in PartStates : context = new_context(main, rels)
    /\ scanned = <<>> /\ raised = ""
    /\ mainPart = "" /\ refs = <<>> /\ comments = <<>> /\ issues = <<>>
    /\ detectors = <<>> /\ disabled = {} /\ docx = "" /\ arg = "" /\ tmpdir = ""
    /\ PackIdle
    /\ profile = "" /\ OrderIdle /\ TreeIdle /\ GridIdle

\* detector.scan(ctx) for the next detector of the run
DetectorScan ==
    /\ Len(scanned) < MaxDetectors
    /\ \E name \in DOMAIN AccessPatterns :
         \E out \in {scan_accesses(context, AccessPatterns[name])} :
            /\ context' = out.ctx
            /\ raised' = out.raised
            /\ scanned' = Append(scanned, name)
    /\ op' = "scan"
    /\ UNCHANGED CacheFrame

CacheNext == DetectorScan

SpecCache == CacheInit /\ [][CacheNext]_vars

(***************************************************************************)
(* Claim C24 (context-level).                                              *)
(***************************************************************************)
\* C24 as stated: the function behind each lazy attribute runs at most once
\* in a run, and not at all for an attribute nothing reads.
C24_ComputedOnce ==
    \A p \in CacheNames :
        /\ context.calls[p] <= 1
        /\ context.reads[p] = 0 => context.calls[p] = 0

\* What the code does keep: the function behind each lazy attribute returns
\* at most once in a run, and from then on the value is stored and the
\* function is not run again.  A run of the function that raises stores
\* nothing, so while the part is missing or malformed every read runs it
\* again.  An attribute nothing reads is never computed.
ComputedOnceIfItReturns ==
    \A p \in CacheNames :
        /\ context.calls[p] - context.failed[p] <= 1
        /\ p \in context.cache <=> context.calls[p] - context.failed[p] = 1
        /\ p \notin context.cache => context.calls[p] = context.reads[p]
        /\ context.reads[p] = 0 => context.calls[p] = 0

\* Three detectors have read document_root (the third through parent_map) of
\* a well-formed package, and relationships has been read three times: each
\* was computed once.
ComputedOnceReached ==
    /\ op = "scan" /\ Len(scanned) = 3 /\ context.main = "ok"
    /\ context.reads["document_root"] >= 3 /\ context.calls["document_root"] = 1
    /\ context.reads["relationships"] >= 3 /\ context.calls["relationships"] = 1
    /\ context.calls["parent_map"] = 1

(***************************************************************************)
(* Claims C27, C28 (tree-level).                                           *)
(***************************************************************************)
\* The children of the root of tree t other than sectPr, in order.
ContentOf(t) == Filter(t.kids[1], {c \in Range(t.kids[1]) : t.tag[c] # "sectPr"})

\* C27: fix_all leaves the non-sectPr children of a body in the relative
\* order they had before the first fix_all.
C27_BodyOrderPreserved ==
    op = "fix_all" /\ orig.tag[1] = "body" => ContentOf(Snapshot) = ContentOf(orig)

\* Position of tag t in a registered order (claim side).
OrderRank(order, t) == FirstIndex(order, t)
RegisteredSorted(n) ==
    LET order == get_child_order(tag[n], profile)
    IN \A i, j \in 1..Len(kids[n]) :
          ( /\ i < j
            /\ tag[kids[n][i]] \in Range(order)
            /\ tag[kids[n][j]] \in Range(order) ) =>
              OrderRank(order, tag[kids[n][i]]) <= OrderRank(order, tag[kids[n][j]])
SectPrTrailing(n) ==
    \A i, j \in 1..Len(kids[n]) :
        i < j /\ tag[kids[n][i]] = "sectPr" => tag[kids[n][j]] = "sectPr"

\* C28: after fix_all, under any profile, in every element with a registered
\* order the children whose tags are registered stand in nondecreasing rank
\* order, and in every body all sectPr children are the trailing children.
C28_FixAllPostcondition ==
    op = "fix_all" =>
        \A n \in 1..Len(tag) :
            /\ get_child_order(tag[n], profile) # <<>> => RegisteredSorted(n)
            /\ tag[n] = "body" => SectPrTrailing(n)

\* C28 witness: a body that was sectPr, bookmarkStart, tbl, p before fix_all,
\* under a profile that does not register bookmarkStart.
C28_Witness ==
    /\ op = "fix_all" /\ runs = 1 /\ profile = "repair"
    /\ orig.tag[1] = "body"
    /\ [i \in 1..Len(orig.kids[1]) |-> orig.tag[orig.kids[1][i]]]
         = <<"sectPr", "bookmarkStart", "tbl", "p">>
    /\ ret > 0
    /\ tag[kids[1][Len(kids[1])]] = "sectPr"

(***************************************************************************)
(* Claim C26 (fixer-level).                                                *)
(***************************************************************************)
\* Where node n stands in tree t: the (parent, index) pairs that hold it.
PlacesIn(t, n) ==
    {pi \in UNION {{<<p, i>> : i \in 1..Len(t.kids[p])} : p \in 1..Len(t.kids)} :
        t.kids[pi[1]][pi[2]] = n}
ParentIn(t, n) == CHOOSE p \in 1..Len(t.kids) : n \in Range(t.kids[p])
Created == (Len(orig.tag) + 1)..Len(tag)

\* C26: after any sequence of fix_all and align_grid calls every element of
\* the document handed to the fixer is still in the tree, once, with its tag;
\* every new element is a pBdr under a pPr that had loose border leaves and no
\* pBdr, at most one per such pPr; and every element has the parent it had,
\* except loose border leaves of a pPr, which are in that pPr's pBdr.
C26_NodeConservation ==
    op \in {"fix_all", "align_grid"} =>
        /\ Len(tag) >= Len(orig.tag)
        /\ \A n \in 1..Len(orig.tag) : tag[n] = orig.tag[n]
        /\ PlacesIn(Snapshot, 1) = {}
        /\ \A n \in 2..Len(tag) : Cardinality(PlacesIn(Snapshot, n)) = 1
        /\ \A n \in Created :
              /\ tag[n] = "pBdr"
              /\ ParentIn(Snapshot, n) <= Len(orig.tag)
              /\ orig.tag[ParentIn(Snapshot, n)] = "pPr"
              /\ LooseIn(orig, ParentIn(Snapshot, n)) # {}
              /\ GroupsIn(orig, ParentIn(Snapshot, n)) = {}
        /\ \A m, n \in Created :
              ParentIn(Snapshot, m) = ParentIn(Snapshot, n) => m = n
        /\ \A n \in 2..Len(orig.tag) :
              \/ ParentIn(Snapshot, n) = ParentIn(orig, n)
              \/ /\ orig.tag[n] \in BORDER_LEAVES
                 /\ orig.tag[ParentIn(orig, n)] = "pPr"
                 /\ tag[ParentIn(Snapshot, n)] = "pBdr"
                 /\ ParentIn(Snapshot, ParentIn(Snapshot, n)) = ParentIn(orig, n)

\* C26 witness: fix_all made a pBdr for two loose leaves and reordered the
\* body, then align_grid rewrote a cell, then fix_all ran again.
C26_Witness ==
    /\ op = "fix_all" /\ runs = 1
    /\ pre.events # <<>> /\ pre.events[Len(pre.events)].action = "align-grid"
    /\ Created # {} /\ Len(pre.tag) = Len(tag)
    /\ \E g \in Created : Len(kids[g]) = 2 /\ ParentIn(Snapshot, g) = 4
    /\ kids[1] # orig.kids[1]
    /\ LooseIn(orig, 4) # {}

(***************************************************************************)
(* Standard-pipeline runs: ValidationPipeline.standard(), some detectors   *)
(* skipped, then run on a package.                                         *)
(***************************************************************************)
NoRels == [state |-> "absent", ids |-> {}]
Blip(embed, image, w, h, extent, cx, cy) ==
    [embed |-> embed, image |-> image, w |-> w, h |-> h,
     extent |-> extent, cx |-> cx, cy |-> cy]
Hyperlink(rid, anchor) == [rid |-> rid, anchor |-> anchor]

\* A package: zip (is the file a ZIP archive), main (word/document.xml), pil
\* (whether PIL can be imported where the run happens) and what the
\* detectors read of the main part and the parts next to it.
Package(zip, main, pil, tree, annot, marks, docprs, links, rels, blips) ==
    [zip |-> zip, main |-> main, pil |-> pil, tree |-> tree,
     refs |-> annot[1], comments |-> annot[2],
     starts |-> marks[1], ends |-> marks[2],
     docprs |-> docprs, links |-> links, rels |-> rels, blips |-> blips]

CleanTree == ScanDoc(INT(25), NONE, INT(25), "dxa", INT(25), INT(25))
DriftTree == ScanDoc(INT(25), NONE, INT(28), "dxa", INT(25), INT(25))
EmptyPackage(zip, main) ==
    Package(zip, main, TRUE, CleanTree, <<<<>>, NoComments>>, <<<<>>, <<>>>>,
            <<>>, <<>>, NoRels, <<>>)

\* The packages drawn.  An archive that is no ZIP file, and a package whose
\* main part is missing or malformed, have nothing else to read.
Packages ==
    {EmptyPackage("badzip", "ok"), EmptyPackage("ok", "missing"),
     EmptyPackage("ok", "malformed")}
    \cup
    {Package("ok", "ok", pil, tree, annot, marks, docprs, links, rels, blips) :
        pil \in BOOLEAN,
        tree \in {CleanTree, DriftTree},
        annot \in {<<<<>>, NoComments>>,
                   <<<<"5">>, NoComments>>,
                   <<<<"5", "7">>, [state |-> "ok", ids |-> <<"5">>]>>},
        marks \in {<<<<"5">>, <<"5">>>>, <<<<"5", "7">>, <<"5">>>>, <<<<"5">>, <<"7", "">>>>},
        docprs \in {<<"1", "2", "">>, <<"1", "2", "1", "">>},
        links \in {<<>>, <<Hyperlink("rId1", UNSET), Hyperlink("rId9", "top"),
                          Hyperlink("rId8", ""), Hyperlink(UNSET, "")>>},
        rels \in {NoRels, [state |-> "ok", ids |-> {"rId1", "rId2"}],
                  [state |-> "malformed", ids |-> {}]},
        blips \in {<<>>,
                   <<Blip(UNSET, "ok", 4, 3, TRUE, 400, 300),
                     Blip("rId1", "ok", 4, 3, TRUE, 400, 300),
                     Blip("rId1", "ok", 4, 3, TRUE, 400, 200),
                     Blip("rId2", "absent", 4, 3, TRUE, 400, 200),
                     Blip("rId1", "ok", 4, 3, FALSE, 0, 0)>>}}

StdFrame == <<profile, orderVars, treeVars, gridVars, mainPart, refs, comments, raised,
              detectors, context, packVars>>

\* pipeline = ValidationPipeline.standard(), and the file handed to run.
StdInit ==
    /\ op = "init"
    /\ docx \in Packages
    /\ detectors = STANDARD_DETECTORS /\ disabled = {}
    /\ issues = <<>> /\ scanned = <<>> /\ raised = ""
    /\ arg = "" /\ tmpdir = ""
    /\ mainPart = "" /\ refs = <<>> /\ comments = <<>> /\ context = <<>>
    /\ PackIdle
    /\ profile = "" /\ OrderIdle /\ TreeIdle /\ GridIdle

\* pipeline.skip(name)
StdSkip ==
    /\ op \in {"init", "skip"}
    /\ Cardinality(disabled) < MaxSkipped
    /\ \E name \in Range(STANDARD_DETECTORS) \ disabled :
          disabled' = disabled \cup {name} /\ arg' = name
    /\ op' = "skip"
    /\ UNCHANGED <<docx, issues, scanned, tmpdir, StdFrame>>

\* pipeline.run(path)
StdRun ==
    /\ op \in {"init", "skip"}
    /\ \E o1, o2, o3 \in Orderings(IdPool) :
         \E out \in {standard_run(docx, disabled, <<o1, o2, o3>>)} :
            /\ issues' = out.issues
            /\ scanned' = out.scanned
    /\ tmpdir' = "removed"
    /\ op' = "run"
    /\ UNCHANGED <<docx, disabled, arg, StdFrame>>

StdNext == StdSkip \/ StdRun

SpecStd == StdInit /\ [][StdNext]_vars

(***************************************************************************)
(* Claim C25 (standard pipeline).                                          *)
(***************************************************************************)
\* The locations each kind of finding is reported at (claim side), over the
\* ids the packages use.
CommentLocations == {"comment/" \o id : id \in IdPool}
DriftLocations ==
    {"table[" \o ToString(t) \o "]/row[" \o ToString(r) \o "]" : t, r \in 1..2}
    \cup {"image/" \o e : e \in {"rId1", "rId2"}}
BookmarkLocations == {"bookmark/" \o id : id \in IdPool}
DrawingLocations == {"drawing/docPr[@id=" \o id \o "]" : id \in {"1", "2"}}
HyperlinkLocations == {"hyperlink/" \o r : r \in {"rId1", "rId8", "rId9"}}
FaultLocations == {"detector/" \o n : n \in Range(STANDARD_DETECTORS)}
WarningOnlyLocations ==
    DriftLocations \cup BookmarkLocations \cup DrawingLocations
        \cup HyperlinkLocations \cup FaultLocations
At(locations) == {i \in 1..Len(issues) : issues[i].location \in locations}

\* C25: in a report of the standard pipeline a BLOCKER comes from the
\* annotation-links detector (a comment reference that does not resolve) or
\* from the archive not being a ZIP file, and from nothing else; width drift,
\* aspect-ratio drift, orphan bookmarks, duplicate drawing ids, unresolved
\* hyperlinks and detector faults are WARNINGs; there is no HINT.
C25_SeverityComposition ==
    op = "run" =>
        /\ \A i \in 1..Len(issues) :
              /\ issues[i].gravity \in {BLOCKER, WARNING}
              /\ issues[i].location \in
                    {"archive"} \cup CommentLocations \cup WarningOnlyLocations
              /\ issues[i].gravity = BLOCKER =>
                    \/ docx.zip = "badzip" /\ issues[i].location = "archive"
                    \/ /\ "annotation-links" \notin disabled
                       /\ issues[i].location \in CommentLocations
        /\ \A i \in At(WarningOnlyLocations) : issues[i].gravity = WARNING

\* C25 witness: one report with a width drift, an aspect-ratio drift, an
\* orphan bookmark, a duplicate drawing id and an unresolved hyperlink, all
\* WARNINGs, next to the BLOCKER of an unresolved comment reference.
C25_Witness ==
    /\ op = "run" /\ disabled = {}
    /\ \E i \in At(CommentLocations) : issues[i].gravity = BLOCKER
    /\ At({"table[1]/row[1]"}) # {} /\ At({"image/rId1"}) # {}
    /\ At(BookmarkLocations) # {} /\ At(DrawingLocations) # {}
    /\ At(HyperlinkLocations) # {}
    /\ Cardinality(At(CommentLocations)) = 1
    /\ Len(issues) = 6

====
